---- MODULE Spec2Model ----
(***************************************************************************)
(* TickSnap: a chat front-end that registers installment payments in a     *)
(* spreadsheet ledger (master table in columns M-X, payment log in columns *)
(* A-I of the same sheet) and delivers a receipt image per payment.        *)
(*                                                                         *)
(* Text is modelled as sequences of one-character strings so that strip,   *)
(* replace, split and int()/float() are computed as the code computes      *)
(* them.                                                                   *)
(***************************************************************************)
EXTENDS Integers, Sequences, FiniteSets, TLC

(***************************************************************************)
(* Characters and the string helpers of the Python runtime.                *)
(***************************************************************************)
UpperLetters == <<"A","B","C","D","E","F","G","H","I","J","K","L","M",
                  "N","O","P","Q","R","S","T","U","V","W","X","Y","Z">>

LowerLetters == <<"a","b","c","d","e","f","g","h","i","j","k","l","m",
                  "n","o","p","q","r","s","t","u","v","w","x","y","z">>

DigitChars == <<"0","1","2","3","4","5","6","7","8","9">>

Whitespace == {" "}

IndexIn(seq, c) == CHOOSE i \in 1..Len(seq) : seq[i] = c

InSeq(seq, c) == \E i \in 1..Len(seq) : seq[i] = c

Range(seq) == {seq[i] : i \in 1..Len(seq)}

OtherChars == {" ", "$", "+", ",", "-", ".", "/", "_"}

Chars == Range(UpperLetters) \cup Range(LowerLetters) \cup Range(DigitChars) \cup OtherChars

\* ASCII codes of the characters the model uses.
AsciiOf(c) ==
    IF InSeq(UpperLetters, c) THEN 64 + IndexIn(UpperLetters, c)
    ELSE IF InSeq(LowerLetters, c) THEN 96 + IndexIn(LowerLetters, c)
    ELSE IF InSeq(DigitChars, c) THEN 47 + IndexIn(DigitChars, c)
    ELSE CASE c = " " -> 32
           [] c = "$" -> 36
           [] c = "+" -> 43
           [] c = "," -> 44
           [] c = "-" -> 45
           [] c = "." -> 46
           [] c = "/" -> 47
           [] c = "_" -> 95

AsciiTable == [c \in Chars |-> AsciiOf(c)]

UpperTable ==
    [c \in Chars |-> IF InSeq(LowerLetters, c) THEN UpperLetters[IndexIn(LowerLetters, c)] ELSE c]

LowerTable ==
    [c \in Chars |-> IF InSeq(UpperLetters, c) THEN LowerLetters[IndexIn(UpperLetters, c)] ELSE c]

DigitSet == Range(DigitChars)

\* ord()
Ord(c) == AsciiTable[c]

\* str.upper() / str.lower() on one character.
UpperChar(c) == UpperTable[c]

LowerChar(c) == LowerTable[c]

Upper(s) == [i \in 1..Len(s) |-> UpperChar(s[i])]

\* Lower that leaves the letters as they are.
Lower_AsIs(s) == s

Lower(s) == [i \in 1..Len(s) |-> LowerChar(s[i])]

Reversed(s) == [i \in 1..Len(s) |-> s[Len(s) + 1 - i]]

RECURSIVE LStrip(_)
LStrip(s) == IF s # <<>> /\ Head(s) \in Whitespace THEN LStrip(Tail(s)) ELSE s

RECURSIVE RStrip(_)
RStrip(s) ==
    IF s # <<>> /\ s[Len(s)] \in Whitespace THEN RStrip(SubSeq(s, 1, Len(s) - 1)) ELSE s

\* str.strip()
Strip(s) == RStrip(LStrip(s))

\* str.replace(c, '')
RemoveChar(s, c) == SelectSeq(s, LAMBDA x : x # c)

\* str.replace(a, b) for single characters
ReplaceChar(s, a, b) == [i \in 1..Len(s) |-> IF s[i] = a THEN b ELSE s[i]]

\* str.split(c)[0]
RECURSIVE BeforeFirst(_, _)
BeforeFirst(s, c) ==
    IF s = <<>> \/ Head(s) = c THEN <<>> ELSE <<Head(s)>> \o BeforeFirst(Tail(s), c)

IsDigit(c) == c \in DigitSet

AllDigits(s) == s # <<>> /\ \A i \in 1..Len(s) : IsDigit(s[i])

RECURSIVE DigitsValue(_)
DigitsValue(s) ==
    IF s = <<>> THEN 0
    ELSE 10 * DigitsValue(SubSeq(s, 1, Len(s) - 1)) + (Ord(s[Len(s)]) - Ord("0"))

RECURSIVE Pow10(_)
Pow10(n) == IF n = 0 THEN 1 ELSE 10 * Pow10(n - 1)

Unsigned(t) == IF t # <<>> /\ Head(t) \in {"+", "-"} THEN Tail(t) ELSE t

Signum(t) == IF t # <<>> /\ Head(t) = "-" THEN -1 ELSE 1

\* Every '_' of a numeral stands between two digits.
Grouped(u) ==
    \A i \in 1..Len(u) :
        u[i] = "_" => /\ 1 < i /\ i < Len(u)
                      /\ IsDigit(u[i - 1]) /\ IsDigit(u[i + 1])

\* int() on a stripped text t: an optional sign, then decimal digits, single
\* underscores allowed between digits.
PyIntSigned(t) ==
    IF Grouped(Unsigned(t)) /\ AllDigits(RemoveChar(Unsigned(t), "_"))
    THEN [ok |-> TRUE, val |-> Signum(t) * DigitsValue(RemoveChar(Unsigned(t), "_"))]
    ELSE [ok |-> FALSE, val |-> 0]

\* int(text): surrounding whitespace is ignored; anything that is no decimal
\* integer raises ValueError (ok = FALSE).
PyInt(s) == PyIntSigned(Strip(s))

\* A decimal value num / 10^scale, without trailing zeros in the fraction.
RECURSIVE Normalize(_)
Normalize(d) ==
    IF d.scale > 0 /\ d.num % 10 = 0
    THEN Normalize([num |-> d.num \div 10, scale |-> d.scale - 1])
    ELSE d

ZeroFloat == [num |-> 0, scale |-> 0]

\* The digits after the '.' of an unsigned numeral whose digits before it are
\* intPart.
FracPart(body, intPart) ==
    IF Len(intPart) = Len(body) THEN <<>> ELSE SubSeq(body, Len(intPart) + 2, Len(body))

PyFloatParts(sign, intPart, fracPart) ==
    IF AllDigits(intPart \o fracPart)
    THEN [ok |-> TRUE,
          val |-> Normalize([num |-> sign * DigitsValue(intPart \o fracPart),
                             scale |-> Len(fracPart)])]
    ELSE [ok |-> FALSE, val |-> ZeroFloat]

PyFloatBody(sign, body, intPart) == PyFloatParts(sign, intPart, FracPart(body, intPart))

PyFloatSigned(t) == PyFloatBody(Signum(t), Unsigned(t), BeforeFirst(Unsigned(t), "."))

\* float(text): surrounding whitespace, an optional sign, digits with at most
\* one '.', at least one digit; anything else raises ValueError.
PyFloat(s) == PyFloatSigned(Strip(s))

(***************************************************************************)
(* Column letters of the sheet (sheet.py).                                 *)
(***************************************************************************)
COL_MASTER_NOMBRE == <<"M">>
COL_MASTER_APELLIDO == <<"N">>
COL_MASTER_ARTICULO == <<"P">>
COL_MASTER_CODIGO == <<"Q">>
COL_MASTER_ID_ARTICULO == <<"R">>
COL_MASTER_COMERCIO == <<"S">>
COL_MASTER_DIRECCION == <<"T">>
COL_MASTER_TOTAL_CREDITO == <<"U">>
COL_MASTER_IMPORTE_CUOTA == <<"V">>
COL_MASTER_TOTAL_CUOTAS == <<"W">>
COL_MASTER_CUOTAS_ABONADAS == <<"X">>

COL_LOG_FECHA == <<"A">>
COL_LOG_ARTICULO == <<"D">>
COL_LOG_CANT_CUOTAS_PAGADAS == <<"I">>

\* col_to_index: the loop over reversed(col_letter.upper()).
RECURSIVE ColAcc(_, _, _)
ColAcc(rev, index, power) ==
    IF rev = <<>> THEN index
    ELSE ColAcc(Tail(rev), index + (Ord(Head(rev)) - Ord("A") + 1) * power, power * 26)

\* col_to_index without the final "- 1": a one-based index.
col_to_index_OneBased(col_letter) == ColAcc(Reversed(Upper(col_letter)), 0, 1)

col_to_index(col_letter) == ColAcc(Reversed(Upper(col_letter)), 0, 1) - 1

(***************************************************************************)
(* A sheet row as the API returns it: the cells from column A on, with the *)
(* trailing empty cells dropped.  Columns A-I are the payment log, J-L are *)
(* unused, M-X are the master table.                                       *)
(***************************************************************************)
RECURSIVE TrimRow(_)
TrimRow(cells) ==
    IF cells # <<>> /\ cells[Len(cells)] = <<>>
    THEN TrimRow(SubSeq(cells, 1, Len(cells) - 1))
    ELSE cells

PadTo(cells, n) == [i \in 1..n |-> IF i <= Len(cells) THEN cells[i] ELSE <<>>]

\* The row of the sheet made of log cells (A-I) and master cells (M-X).
SheetRow(logCells, masterCells) == TrimRow(PadTo(logCells, 12) \o masterCells)

NA == <<"N", "/", "A">>

\* The value of a parse, or the default when it raised ValueError
\* (sheet.py:196-198).
OrDefault(parsed, default_val) == IF parsed.ok THEN parsed.val ELSE default_val

\* _get_cell_value on the stripped text of a cell that is inside the row
ConvertCell(val_str, default_val, data_type) ==
    IF val_str = <<>> THEN default_val
    ELSE IF data_type = "int"
    THEN OrDefault(PyInt(BeforeFirst(RemoveChar(RemoveChar(val_str, "$"), "."), ",")),
                   default_val)
    ELSE IF data_type = "float"
    THEN OrDefault(PyFloat(ReplaceChar(RemoveChar(RemoveChar(val_str, "$"), "."), ",", ".")),
                   default_val)
    ELSE val_str

CellAt(row_values, cell_idx, default_val, data_type) ==
    IF cell_idx < Len(row_values)
    THEN ConvertCell(Strip(row_values[cell_idx + 1]), default_val, data_type)
    ELSE default_val

\* get_credit_data._get_cell_value (the nested helper)
get_cell_value(row_values, col_letter, default_val, data_type) ==
    CellAt(row_values, col_to_index(col_letter), default_val, data_type)

\* The dictionary built at sheet.py:200-213.
ParseCredit(row_index, row_values) ==
    [row_index |-> row_index,
     nombre |-> get_cell_value(row_values, COL_MASTER_NOMBRE, NA, "str"),
     apellido |-> get_cell_value(row_values, COL_MASTER_APELLIDO, NA, "str"),
     articulo |-> get_cell_value(row_values, COL_MASTER_ARTICULO, NA, "str"),
     codigo |-> get_cell_value(row_values, COL_MASTER_CODIGO, NA, "str"),
     id_articulo |-> get_cell_value(row_values, COL_MASTER_ID_ARTICULO, NA, "str"),
     local_comercial |-> get_cell_value(row_values, COL_MASTER_COMERCIO, NA, "str"),
     direccion |-> get_cell_value(row_values, COL_MASTER_DIRECCION, NA, "str"),
     total_credito |-> get_cell_value(row_values, COL_MASTER_TOTAL_CREDITO, ZeroFloat, "float"),
     importe_cuota |-> get_cell_value(row_values, COL_MASTER_IMPORTE_CUOTA, ZeroFloat, "float"),
     total_cuotas |-> get_cell_value(row_values, COL_MASTER_TOTAL_CUOTAS, 0, "int"),
     cuotas_abonadas_antes |-> get_cell_value(row_values, COL_MASTER_CUOTAS_ABONADAS, 0, "int")]

NoCredit == [row_index |-> 0]

\* ValidateCredit without the check of the instalment count.
ValidateCredit_NoTotal(credit) ==
    IF credit.id_articulo = <<>> \/ credit.id_articulo = NA THEN "id_articulo"
    ELSE IF credit.codigo = <<>> \/ credit.codigo = NA THEN "codigo"
    ELSE IF credit.importe_cuota.num <= 0 THEN "importe_cuota"
    ELSE "ok"

\* The validation at sheet.py:216-231: the first failing check, or "ok".
ValidateCredit(credit) ==
    IF credit.id_articulo = <<>> \/ credit.id_articulo = NA THEN "id_articulo"
    ELSE IF credit.codigo = <<>> \/ credit.codigo = NA THEN "codigo"
    ELSE IF credit.importe_cuota.num <= 0 THEN "importe_cuota"
    ELSE IF credit.total_cuotas <= 0 THEN "total_cuotas"
    ELSE "ok"

Validated(credit, verdict) ==
    IF verdict = "ok"
    THEN [status |-> "ok", why |-> "ok", credit |-> credit]
    ELSE [status |-> "ValueError", why |-> verdict, credit |-> NoCredit]

CheckCredit(credit) == Validated(credit, ValidateCredit(credit))

\* get_credit_data once the row has been read: the credit, or the ValueError
\* it raises (an empty row, or a failed validation).
get_credit_data(row_index, row_values) ==
    IF row_values = <<>>
    THEN [status |-> "ValueError", why |-> "no_data", credit |-> NoCredit]
    ELSE CheckCredit(ParseCredit(row_index, row_values))

(***************************************************************************)
(* Formatting (f-strings).                                                 *)
(***************************************************************************)
RECURSIVE NatToStr(_)
NatToStr(n) ==
    IF n < 10 THEN <<DigitChars[n + 1]>>
    ELSE NatToStr(n \div 10) \o <<DigitChars[(n % 10) + 1]>>

\* str(n) and f"{n}" for an int
IntToStr(n) == IF n < 0 THEN <<"-">> \o NatToStr(-n) ELSE NatToStr(n)

RECURSIVE Zeros(_)
Zeros(k) == IF k <= 0 THEN <<>> ELSE <<"0">> \o Zeros(k - 1)

\* f"{n:0Wd}": zero padding to width W, the sign counted in the width
ZeroPad(n, width) ==
    IF n < 0
    THEN <<"-">> \o Zeros(width - 1 - Len(NatToStr(-n))) \o NatToStr(-n)
    ELSE Zeros(width - Len(NatToStr(n))) \o NatToStr(n)

\* round(d, 2) of a decimal, as hundredths (half-to-even; the master rows of
\* the model carry at most two decimals, so no rounding happens on them)
Hundredths(d) ==
    IF d.scale <= 2 THEN d.num * Pow10(2 - d.scale)
    ELSE LET p == Pow10(d.scale - 2)
             a == IF d.num < 0 THEN -d.num ELSE d.num
             q == a \div p
             r == a % p
             up == IF 2 * r > p \/ (2 * r = p /\ q % 2 = 1) THEN q + 1 ELSE q
         IN  IF d.num < 0 THEN -up ELSE up

\* f"{x:.2f}" with the decimal separator `sep`
Format2f(d, sep) ==
    LET h == Hundredths(d)
        a == IF h < 0 THEN -h ELSE h
    IN  (IF h < 0 THEN <<"-">> ELSE <<>>) \o NatToStr(a \div 100) \o <<sep>> \o ZeroPad(a % 100, 2)

\* The digits of a number in groups of three, separated by ','.
RECURSIVE GroupThousands(_)
GroupThousands(digits) ==
    IF Len(digits) <= 3 THEN digits
    ELSE GroupThousands(SubSeq(digits, 1, Len(digits) - 3)) \o <<",">>
         \o SubSeq(digits, Len(digits) - 2, Len(digits))

\* f"{x:,.2f}" for x >= 0
FormatMoney(d) ==
    GroupThousands(NatToStr(Hundredths(d) \div 100)) \o <<".">>
    \o ZeroPad(Hundredths(d) % 100, 2)

\* x * n for a decimal x and an int n
TimesInt(d, n) == Normalize([num |-> d.num * n, scale |-> d.scale])

(***************************************************************************)
(* The sheet.  master[r] holds the cells M-X of row r; the log holds the   *)
(* cells A-I: rows 2..base+1 are entries written before the model starts   *)
(* (all alike), log[i] is row base+1+i.                                    *)
(***************************************************************************)
LOG_SCAN_LAST_ROW == 1000      \* 'A2:D1000'

MASTER_SCAN_LAST_ROW == 500    \* 'M2:R500'

OldLogRow == <<<<"x">>, <<"o">>, <<"l">>, <<"d">>>>

LogCells(sheet, r) ==
    IF r < 2 THEN <<<<"F">>>>                       \* the header row
    ELSE IF r <= sheet.base + 1 THEN OldLogRow
    ELSE IF r - sheet.base - 1 <= Len(sheet.log) THEN sheet.log[r - sheet.base - 1]
    ELSE <<>>

MasterCells(sheet, r) == IF r \in DOMAIN sheet.master THEN sheet.master[r] ELSE <<>>

\* worksheet.row_values(r)
row_values(sheet, r) == SheetRow(LogCells(sheet, r), MasterCells(sheet, r))

\* The last row of the sheet that holds a log cell.
LastLogRow(sheet) == sheet.base + 1 + Len(sheet.log)

\* A log row as get_values returns it for the columns A-D.
CutAD(cells) == TrimRow(SubSeq(PadTo(cells, 4), 1, 4))

\* The last row <= r that holds a value in A-D (1: none but the header).
RECURSIVE LastUsed(_, _)
LastUsed(sheet, r) ==
    IF r < 2 THEN 1
    ELSE IF CutAD(LogCells(sheet, r)) # <<>> THEN r
    ELSE LastUsed(sheet, r - 1)

\* worksheet.get_values('A2:D<last>'): the rows 2.. up to the last row of the
\* range holding a value in A-D, each cut to A-D and trimmed.  Of this list
\* LogPreviewTail is the part after the rows 2..base+1 filled beforehand.
LogPreviewTail(sheet, last) ==
    LET upTo == IF LastLogRow(sheet) < last THEN LastLogRow(sheet) ELSE last
        n == LastUsed(sheet, upTo) - 1
    IN  [j \in 1..(n - sheet.base) |-> CutAD(LogCells(sheet, sheet.base + 1 + j))]

\* RowIsEmpty without the strip: only the empty text counts as empty.
RowIsEmpty_NoStrip(row_content) == \A k \in 1..Len(row_content) : row_content[k] = <<>>

\* all(not str(cell).strip() for cell in row_content)
RowIsEmpty(row_content) == \A k \in 1..Len(row_content) : Strip(row_content[k]) = <<>>

\* The loop of find_first_empty_log_row from position i (1-based) on: the
\* position of the first empty row plus 1, or the length plus 2.
RECURSIVE FirstEmptyFrom(_, _)
FirstEmptyFrom(log_table_preview, i) ==
    IF i > Len(log_table_preview) THEN Len(log_table_preview) + 2
    ELSE IF RowIsEmpty(log_table_preview[i]) THEN i + 1
    ELSE FirstEmptyFrom(log_table_preview, i + 1)

\* find_first_empty_log_row once get_values has answered.  The rows filled
\* beforehand are all alike, so the loop's test is made once for them.
find_first_empty_log_row(sheet) ==
    IF sheet.base > 0 /\ RowIsEmpty(CutAD(OldLogRow)) THEN 2
    ELSE sheet.base + FirstEmptyFrom(LogPreviewTail(sheet, LOG_SCAN_LAST_ROW), 1)

FechaLog == <<"0", "1", "/", "1", "1", "/", "2", "0", "2", "6">>

\* log_entry_data (sheet.py:309-319)
log_entry_data(credit_data, cantidad_cuotas_pagadas) ==
    <<FechaLog,
      credit_data.nombre,
      credit_data.apellido,
      credit_data.articulo,
      credit_data.id_articulo,
      credit_data.local_comercial,
      credit_data.direccion,
      Format2f(credit_data.importe_cuota, ","),
      IntToStr(cantidad_cuotas_pagadas)>>

\* SheetUpdate that also counts the payment on the master row 2 (column X).
SheetUpdate_AlsoMaster(sheet, r, cells) ==
    LET i == r - sheet.base - 1
        n == IF Len(sheet.log) < i THEN i ELSE Len(sheet.log)
    IN  [sheet EXCEPT !.log = [PadTo(sheet.log, n) EXCEPT ![i] = cells],
                      !.master[2][12] = cells[9]]

\* sheet.update('A<r>:I<r>', [cells]): the nine log cells of row r are set,
\* nothing else of the sheet changes.
SheetUpdate(sheet, r, cells) ==
    LET i == r - sheet.base - 1
        n == IF Len(sheet.log) < i THEN i ELSE Len(sheet.log)
    IN  [sheet EXCEPT !.log = [PadTo(sheet.log, n) EXCEPT ![i] = cells]]

(***************************************************************************)
(* Parsing of the user's input (main_logic.py).                            *)
(***************************************************************************)
\* str.split(sep, maxsplit) for a one-character separator
RECURSIVE Split(_, _, _)
Split(s, sep, maxsplit) ==
    LET first == BeforeFirst(s, sep)
    IN  IF maxsplit = 0 \/ Len(first) = Len(s) THEN <<s>>
        ELSE <<first>> \o Split(SubSeq(s, Len(first) + 2, Len(s)), sep, maxsplit - 1)

RECURSIVE Word(_)
Word(s) == IF s = <<>> \/ Head(s) \in Whitespace THEN <<>> ELSE <<Head(s)>> \o Word(Tail(s))

\* str.split(maxsplit=n): split on runs of whitespace
RECURSIVE SplitWs(_, _)
SplitWs(s, maxsplit) ==
    LET t == LStrip(s)
    IN  IF t = <<>> THEN <<>>
        ELSE IF maxsplit = 0 THEN <<t>>
        ELSE <<Word(t)>> \o SplitWs(SubSeq(t, Len(Word(t)) + 1, Len(t)), maxsplit - 1)

SELECT == <<"s", "e", "l", "e", "c", "t">>

\* ParseCallback without the test of the row index.
ParseCallback_AnyRow(callback_data_str) ==
    LET parts == Split(callback_data_str, "_", 3)
        bad == [ok |-> FALSE, row_index |-> 0, cuotas_a_pagar |-> 0, item_code_str |-> <<>>]
    IN  IF Len(parts) # 4 THEN bad
        ELSE IF parts[1] # SELECT THEN bad
        ELSE IF ~PyInt(parts[2]).ok \/ ~PyInt(parts[3]).ok THEN bad
        ELSE IF ~(PyInt(parts[3]).val > 0) THEN bad
        ELSE [ok |-> TRUE, row_index |-> PyInt(parts[2]).val,
              cuotas_a_pagar |-> PyInt(parts[3]).val, item_code_str |-> parts[4]]

\* ParseCallback that splits at every underscore.
ParseCallback_SplitAll(callback_data_str) ==
    LET parts == Split(callback_data_str, "_", 9)
        bad == [ok |-> FALSE, row_index |-> 0, cuotas_a_pagar |-> 0, item_code_str |-> <<>>]
    IN  IF Len(parts) # 4 THEN bad
        ELSE IF parts[1] # SELECT THEN bad
        ELSE IF ~PyInt(parts[2]).ok \/ ~PyInt(parts[3]).ok THEN bad
        ELSE IF ~(PyInt(parts[2]).val > 1 /\ PyInt(parts[3]).val > 0) THEN bad
        ELSE [ok |-> TRUE, row_index |-> PyInt(parts[2]).val,
              cuotas_a_pagar |-> PyInt(parts[3]).val, item_code_str |-> parts[4]]

\* handle_item_selection_callback, the try block at main_logic.py:246-260
ParseCallback(callback_data_str) ==
    LET parts == Split(callback_data_str, "_", 3)
        bad == [ok |-> FALSE, row_index |-> 0, cuotas_a_pagar |-> 0, item_code_str |-> <<>>]
    IN  IF Len(parts) # 4 THEN bad
        ELSE IF parts[1] # SELECT THEN bad
        ELSE IF ~PyInt(parts[2]).ok \/ ~PyInt(parts[3]).ok THEN bad
        ELSE IF ~(PyInt(parts[2]).val > 1 /\ PyInt(parts[3]).val > 0) THEN bad
        ELSE [ok |-> TRUE, row_index |-> PyInt(parts[2]).val,
              cuotas_a_pagar |-> PyInt(parts[3]).val, item_code_str |-> parts[4]]

\* process_payment_request, main_logic.py:164-185: "format" when the message
\* is not three parts (ignored silently), "number" when the count is invalid.
ParseText(text) ==
    LET parts == SplitWs(Strip(text), 2)
        bad(why) == [status |-> why, nombre |-> <<>>, apellido |-> <<>>, num_cuotas |-> 0]
    IN  IF Len(parts) # 3 THEN bad("format")
        ELSE IF ~PyInt(parts[3]).ok \/ PyInt(parts[3]).val <= 0 THEN bad("number")
        ELSE [status |-> "ok", nombre |-> parts[1], apellido |-> parts[2],
              num_cuotas |-> PyInt(parts[3]).val]

\* is_allowed_user that lets in every user that has an identity.
is_allowed_user_Anyone(user, allowed) == user # 0

\* is_allowed_user: user 0 stands for an update without effective_user
is_allowed_user(user, allowed) == user # 0 /\ user \in allowed

(***************************************************************************)
(* find_client_credits once get_values('M2:R500') has answered.            *)
(***************************************************************************)
MasterPreview(sheet) ==
    LET cut(r) == TrimRow(SubSeq(PadTo(MasterCells(sheet, r), 6), 1, 6))
        used == {r \in DOMAIN sheet.master : 2 <= r /\ r <= MASTER_SCAN_LAST_ROW /\ cut(r) # <<>>}
        n == IF used = {} THEN 0 ELSE (CHOOSE r \in used : \A q \in used : q <= r) - 1
    IN  [i \in 1..n |-> cut(i + 1)]

RECURSIVE MatchesFrom(_, _, _, _)
MatchesFrom(all_data, i, nombre_buscar, apellido_buscar) ==
    IF i > Len(all_data) THEN <<>>
    ELSE LET row == all_data[i]
             base_col_index == col_to_index(COL_MASTER_NOMBRE)
             idx_nombre_rel == col_to_index(COL_MASTER_NOMBRE) - base_col_index
             idx_apellido_rel == col_to_index(COL_MASTER_APELLIDO) - base_col_index
             idx_articulo_rel == col_to_index(COL_MASTER_ARTICULO) - base_col_index
             idx_codigo_rel == col_to_index(COL_MASTER_CODIGO) - base_col_index
             idx_id_articulo_rel == col_to_index(COL_MASTER_ID_ARTICULO) - base_col_index
             rest == MatchesFrom(all_data, i + 1, nombre_buscar, apellido_buscar)
         IN  IF Len(row) <= idx_id_articulo_rel THEN rest
             ELSE IF Lower(Strip(row[idx_nombre_rel + 1])) # Lower(nombre_buscar)
                     \/ Lower(Strip(row[idx_apellido_rel + 1])) # Lower(apellido_buscar)
             THEN rest
             ELSE LET articulo == Strip(row[idx_articulo_rel + 1])
                      codigo == Strip(row[idx_codigo_rel + 1])
                      id_articulo == Strip(row[idx_id_articulo_rel + 1])
                  IN  IF id_articulo = <<>> \/ id_articulo = NA THEN rest
                      ELSE IF codigo = <<>> \/ codigo = NA THEN rest
                      ELSE <<[row_index |-> i + 1, articulo |-> articulo,
                              id_articulo |-> id_articulo, codigo |-> codigo]>> \o rest

find_client_credits(sheet, nombre_buscar, apellido_buscar) ==
    MatchesFrom(MasterPreview(sheet), 1, nombre_buscar, apellido_buscar)

\* callback_data = f"select_{row_index}_{num_cuotas}_{codigo}"
CallbackData(credit_match, num_cuotas) ==
    SELECT \o <<"_">> \o IntToStr(credit_match.row_index) \o <<"_">>
           \o IntToStr(num_cuotas) \o <<"_">> \o credit_match.codigo

Buttons(client_credits, num_cuotas) ==
    [k \in 1..Len(client_credits) |-> CallbackData(client_credits[k], num_cuotas)]

(***************************************************************************)
(* generate_and_send_receipt: the receipt number, the feasibility checks   *)
(* and the ticket (main_logic.py:309-391).                                 *)
(***************************************************************************)
REMITO_NA == NA

REMITO_ERROR == <<"E", "r", "r", "o", "r", "/", "F", "o", "r", "m", "a", "t">>

\* RemitoNumber without the zero padding.
RemitoNumber_Unpadded(credit, log_sheet_next_row) ==
    IF log_sheet_next_row # 0 /\ credit.id_articulo # <<>> /\ credit.id_articulo # NA
    THEN IF PyInt(credit.id_articulo).ok
         THEN IntToStr(PyInt(credit.id_articulo).val) \o <<"/">> \o IntToStr(log_sheet_next_row)
         ELSE REMITO_ERROR
    ELSE REMITO_NA

\* log_sheet_next_row = 0 stands for None
RemitoNumber(credit, log_sheet_next_row) ==
    IF log_sheet_next_row # 0 /\ credit.id_articulo # <<>> /\ credit.id_articulo # NA
    THEN IF PyInt(credit.id_articulo).ok
         THEN ZeroPad(PyInt(credit.id_articulo).val, 3) \o <<"/">> \o ZeroPad(log_sheet_next_row, 4)
         ELSE REMITO_ERROR
    ELSE REMITO_NA

\* Feasibility with a strict comparison of the paid count with the total.
Feasibility_StrictPaid(credit, cuotas_a_pagar) ==
    IF credit.cuotas_abonadas_antes > credit.total_cuotas THEN "fully_paid"
    ELSE IF cuotas_a_pagar > credit.total_cuotas - credit.cuotas_abonadas_antes THEN "exceeds"
    ELSE "payable"

\* Feasibility that lets one instalment more than the remaining ones through.
Feasibility_OneMore(credit, cuotas_a_pagar) ==
    IF credit.cuotas_abonadas_antes >= credit.total_cuotas THEN "fully_paid"
    ELSE IF cuotas_a_pagar > credit.total_cuotas - credit.cuotas_abonadas_antes + 1
    THEN "exceeds"
    ELSE "payable"

\* "fully_paid", "exceeds" or "payable" (main_logic.py:320-353)
Feasibility(credit, cuotas_a_pagar) ==
    IF credit.cuotas_abonadas_antes >= credit.total_cuotas THEN "fully_paid"
    ELSE IF cuotas_a_pagar > credit.total_cuotas - credit.cuotas_abonadas_antes THEN "exceeds"
    ELSE "payable"

TO == <<" ", "t", "o", " ">>

OF == <<" ", "o", "f", " ">>

\* RangoCuotas that writes the range also for a single instalment.
RangoCuotas_AlwaysRange(credit, cuotas_a_pagar) ==
    IntToStr(credit.cuotas_abonadas_antes + 1) \o TO
    \o IntToStr(credit.cuotas_abonadas_antes + cuotas_a_pagar) \o OF
    \o IntToStr(credit.total_cuotas)

RangoCuotas(credit, cuotas_a_pagar) ==
    LET current_installment_start_num == credit.cuotas_abonadas_antes + 1
        current_installment_end_num == credit.cuotas_abonadas_antes + cuotas_a_pagar
    IN  IF cuotas_a_pagar = 1
        THEN IntToStr(current_installment_start_num) \o OF \o IntToStr(credit.total_cuotas)
        ELSE IntToStr(current_installment_start_num) \o TO
             \o IntToStr(current_installment_end_num) \o OF \o IntToStr(credit.total_cuotas)

NoTicket == [remito |-> <<>>]

\* Ticket whose paid-to-date amount leaves out the instalments paid now.
Ticket_PaidBefore(credit, cuotas_a_pagar, remito_number_str) ==
    [remito |-> remito_number_str,
     rango |-> RangoCuotas(credit, cuotas_a_pagar),
     saldo_pagado_total |-> TimesInt(credit.importe_cuota, credit.cuotas_abonadas_antes),
     total_monto_pago |-> TimesInt(credit.importe_cuota, cuotas_a_pagar),
     cuotas |-> cuotas_a_pagar]

Ticket(credit, cuotas_a_pagar, remito_number_str) ==
    [remito |-> remito_number_str,
     rango |-> RangoCuotas(credit, cuotas_a_pagar),
     saldo_pagado_total |->
         TimesInt(credit.importe_cuota, credit.cuotas_abonadas_antes + cuotas_a_pagar),
     total_monto_pago |-> TimesInt(credit.importe_cuota, cuotas_a_pagar),
     cuotas |-> cuotas_a_pagar]

(***************************************************************************)
(* The state.                                                              *)
(***************************************************************************)
VARIABLES
    sheet,                  \* the spreadsheet: [master, base, log]
    ALLOWED_USER_IDS,       \* config.ALLOWED_USER_IDS
    google_sheet_instance,  \* per process: is a connection cached (sheet.py:10)
    pc,                     \* per process: where its handler stands
    loc,                    \* per process: the handler's arguments and locals
    hist,                   \* per process: what the current interaction did so far
    started,                \* number of interactions started
    ld                      \* the credit loader applied to one row (SpecLoad)

vars == <<sheet, ALLOWED_USER_IDS, google_sheet_instance, pc, loc, hist, started, ld>>

\* The processes (function instances) that handle updates concurrently.
Procs == {1, 2}

MaxInteractions == 2

\* Users: 1 is on the allowlist, 2 is not, 0 is an update without a user.
Users == {0, 1, 2}

MasterRow(nombre, apellido, codigo, id_articulo, importe, total, abonadas) ==
    <<nombre, apellido, <<>>, <<"T", "V">>, codigo, id_articulo, <<"S", "h">>, <<>>,
      <<"9", ".", "0", "0", "0">>, importe, total, abonadas>>

\* The master table of the model: a payable credit (row 2), a fully paid one
\* (row 3), an overpaid one (row 4), a payable one whose item identifier is
\* no integer (row 5), one without item code (row 6); row 7 on is empty.
MasterTable ==
    (2 :> MasterRow(<<"A", "l">>, <<"B", "a">>, <<"A", "_", "1">>, <<"7">>,
                    <<"1", ".", "5", "0", "0", ",", "0", "0">>, <<"3">>, <<"1">>))
    @@ (3 :> MasterRow(<<"C", "y">>, <<"D", "i">>, <<"B", "2">>, <<"8">>,
                       <<"$", "2", "0", "0">>, <<"2">>, <<"2">>))
    @@ (4 :> MasterRow(<<"c", "y">>, <<" ", "d", "i">>, <<"C", "3">>, <<"9">>,
                       <<"5", "0", ",", "5">>, <<"2">>, <<"3">>))
    @@ (5 :> MasterRow(<<"A", "L">>, <<"B", "A">>, <<"D", "4">>, <<"x", "7">>,
                       <<"1", "0", "0">>, <<"2">>, <<"1">>))
    @@ (6 :> MasterRow(<<"A", "l">>, <<"B", "a">>, <<>>, <<"6">>,
                       <<"1", "0", "0">>, <<"2">>, <<"0">>))

\* Number of log rows filled before the model starts: none, or the whole
\* scanned window (rows 2..1000).
InitLogBases == {0, LOG_SCAN_LAST_ROW - 1}

TextInputs ==
    { <<"A", "l", " ", "B", "a", " ", "2">>,
      <<" ", "a", "l", " ", " ", "b", "a", " ", "2">>,
      <<"C", "Y", " ", "d", "i", " ", "1">>,
      <<"Z", "e", "d", " ", "B", "a", " ", "1">>,
      <<"A", "l", " ", "B", "a">>,
      <<"A", "l", " ", "B", "a", " ", "x">>,
      <<"A", "l", " ", "B", "a", " ", "0">>,
      <<"A", "l", " ", "B", "a", " ", "-", "1">>,
      <<"A", "l", " ", "B", "a", " ", "1", " ", "2">> }

\* The tokens process_payment_request puts on its buttons for the text inputs.
OfferedTokens(sh) ==
    UNION { LET t == ParseText(text)
                b == Buttons(find_client_credits(sh, t.nombre, t.apellido), t.num_cuotas)
            IN  IF t.status = "ok" THEN {b[k] : k \in 1..Len(b)} ELSE {}
            : text \in TextInputs }

\* The buttons offered on the master table as it is when the model starts.
InitialTokens == OfferedTokens([master |-> MasterTable, base |-> 0, log |-> <<>>])

\* Other callback data: buttons of rows that changed since they were offered,
\* and malformed data.
OtherCallbackData ==
    { SELECT \o <<"_", "5", "_", "1", "_", "E">>,
      SELECT \o <<"_", "6", "_", "1", "_", "E">>,
      SELECT \o <<"_", "7", "_", "1", "_", "Z">>,
      SELECT \o <<"_", "1", "_", "1", "_", "A">>,
      SELECT \o <<"_", "2", "_", "0", "_", "A">>,
      SELECT \o <<"_", "2", "_", "-", "1", "_", "A">>,
      SELECT \o <<"_", "x", "_", "1", "_", "A">>,
      SELECT \o <<"_", "2", "_", "1">>,
      <<"p", "i", "c", "k", "_", "2", "_", "1", "_", "A">> }

CallbackInputs == InitialTokens \cup OtherCallbackData

\* The updates: every input from the authorized user, one from each of the
\* others (their input is not looked at).
CallbackUpdates ==
    ({1} \X CallbackInputs) \cup ({0, 2} \X {SELECT \o <<"_", "2", "_", "2", "_", "A", "_", "1">>})

TextUpdates ==
    ({1} \X TextInputs) \cup ({0, 2} \X {<<"A", "l", " ", "B", "a", " ", "2">>})

\* What a ledger call made on a connection answers.
RemoteResults == {"ok", "APIError", "Exception"}

IdleLoc ==
    [kind |-> "none", user |-> 0, data |-> <<>>, row_index |-> 0, cuotas_a_pagar |-> 0,
     log_sheet_next_row |-> 0, credit |-> NoCredit, ticket |-> NoTicket,
     log_row_to_write |-> 0]

\* The locals of a handler that returned before any ledger access: its
\* arguments are gone with its frame.
Returned(kind) == [IdleLoc EXCEPT !.kind = kind]

\* calls: the ledger calls made, in order; failed: those of them that failed;
\* raised: what the failed call that ended the handler answered; wrote: the
\* log row written (0: none); outcome: the message the user got.
FreshHist ==
    [calls |-> <<>>, failed |-> {}, raised |-> "none", rendered |-> FALSE,
     delivered |-> FALSE, wrote |-> 0, outcome |-> "none", buttons |-> <<>>]

\* ld: the cells of a master row handed to get_credit_data alone, and its result.
NoLoad == [phase |-> "off", cells |-> <<>>, res |-> [status |-> "none"]]

Init ==
    /\ sheet \in [master : {MasterTable}, base : InitLogBases, log : {<<>>}]
    /\ ALLOWED_USER_IDS \in {{}, {1}}
    /\ google_sheet_instance = [p \in Procs |-> FALSE]
    /\ pc = [p \in Procs |-> "idle"]
    /\ loc = [p \in Procs |-> IdleLoc]
    /\ hist = [p \in Procs |-> FreshHist]
    /\ started = 0
    /\ ld = NoLoad

(***************************************************************************)
(* connect_to_sheet: `alive` is the answer of the staleness probe on a     *)
(* cached connection, `est` whether a new connection can be established.   *)
(***************************************************************************)
\* ConnectRun that gives up on a stale cached connection.
ConnectRun_StaleFails(cached, alive, est) ==
    IF cached /\ alive
    THEN [ok |-> TRUE, instance |-> TRUE, reused |-> TRUE, discarded |-> FALSE,
          opened |-> FALSE]
    ELSE IF est /\ ~cached
    THEN [ok |-> TRUE, instance |-> TRUE, reused |-> FALSE, discarded |-> FALSE,
          opened |-> TRUE]
    ELSE [ok |-> FALSE, instance |-> FALSE, reused |-> FALSE, discarded |-> cached,
          opened |-> FALSE]

\* One run of connect_to_sheet: what it returns (ok), what the cache holds
\* after it (instance), and what it did: reused the cached connection,
\* discarded it as stale (sheet.py:52-54), opened a new one (sheet.py:65-68).
ConnectRun(cached, alive, est) ==
    IF cached /\ alive
    THEN [ok |-> TRUE, instance |-> TRUE, reused |-> TRUE, discarded |-> FALSE,
          opened |-> FALSE]
    ELSE IF est
    THEN [ok |-> TRUE, instance |-> TRUE, reused |-> FALSE, discarded |-> cached,
          opened |-> TRUE]
    ELSE [ok |-> FALSE, instance |-> FALSE, reused |-> FALSE, discarded |-> cached,
          opened |-> FALSE]

connect_to_sheet(cached, alive, est) ==
    [ok |-> ConnectRun(cached, alive, est).ok,
     instance |-> ConnectRun(cached, alive, est).instance]

\* What connect_to_sheet can return, given whether a connection is cached.
ConnectOutcomes(cached) ==
    {connect_to_sheet(cached, alive, est) : alive \in BOOLEAN, est \in BOOLEAN}

\* The result of a ledger call made through a connection: without connection
\* it is not made at all.
Remote(conn, rc) == IF conn.ok THEN rc ELSE "NoConnection"

RemoteOutcomes(conn) == {Remote(conn, rc) : rc \in RemoteResults}

\* The handler of process p returns with the given outcome after the ledger
\* call `call`, which answered `res`.  The locals of a handler that returns
\* on a failure are gone with its frame.
Finish(p, outcome, call, res, newLoc) ==
    /\ pc' = [pc EXCEPT ![p] = "done"]
    /\ loc' = [loc EXCEPT ![p] = IF res = "ok" THEN newLoc ELSE Returned(loc[p].kind)]
    /\ hist' = [hist EXCEPT ![p].outcome = outcome,
                            ![p].calls = Append(@, call),
                            ![p].failed = IF res = "ok" THEN @ ELSE @ \cup {call},
                            ![p].raised = IF res = "ok" THEN @ ELSE res]

Called(p, call) == [hist EXCEPT ![p].calls = Append(@, call)]

(***************************************************************************)
(* handle_item_selection_callback up to the call of the workflow.          *)
(***************************************************************************)
StartCallback(p) ==
    /\ pc[p] \in {"idle", "done"}
    /\ started < MaxInteractions
    /\ started' = started + 1
    /\ \E update \in CallbackUpdates :
       LET user == update[1]
           data == update[2]
           parsed == ParseCallback(data)
           args == [IdleLoc EXCEPT !.kind = "callback", !.user = user, !.data = data]
       IN  IF ~is_allowed_user(user, ALLOWED_USER_IDS)
           THEN /\ pc' = [pc EXCEPT ![p] = "done"]
                /\ loc' = [loc EXCEPT ![p] = Returned("callback")]
                /\ hist' = [hist EXCEPT ![p] = [FreshHist EXCEPT !.outcome = "denied"]]
           ELSE IF ~parsed.ok
           THEN /\ pc' = [pc EXCEPT ![p] = "done"]
                /\ loc' = [loc EXCEPT ![p] = Returned("callback")]
                /\ hist' = [hist EXCEPT ![p] = [FreshHist EXCEPT !.outcome = "invalid_selection"]]
           ELSE /\ pc' = [pc EXCEPT ![p] = "remito_scan"]
                /\ loc' = [loc EXCEPT ![p] = [args EXCEPT !.row_index = parsed.row_index,
                                                          !.cuotas_a_pagar = parsed.cuotas_a_pagar]]
                /\ hist' = [hist EXCEPT ![p] = FreshHist]
    /\ UNCHANGED <<sheet, ALLOWED_USER_IDS, google_sheet_instance, ld>>

(***************************************************************************)
(* generate_and_send_receipt, step 1: the log row for the receipt number.  *)
(* Any failure is caught at main_logic.py:301 and the workflow goes on.    *)
(***************************************************************************)
RemitoScan(p) ==
    /\ pc[p] = "remito_scan"
    /\ \E conn \in ConnectOutcomes(google_sheet_instance[p]) :
       \E res \in RemoteOutcomes(conn) :
           /\ google_sheet_instance' = [google_sheet_instance EXCEPT ![p] = conn.instance]
           /\ loc' = [loc EXCEPT ![p].log_sheet_next_row =
                          IF res = "ok" THEN find_first_empty_log_row(sheet) ELSE 0]
           /\ hist' = [hist EXCEPT ![p].calls = Append(@, "remito_scan"),
                                   ![p].failed = IF res = "ok" THEN @
                                                 ELSE @ \cup {"remito_scan"}]
    /\ pc' = [pc EXCEPT ![p] = "load"]
    /\ UNCHANGED <<sheet, ALLOWED_USER_IDS, started, ld>>

(***************************************************************************)
(* Steps 2-5: load the credit, build the receipt number, check that the    *)
(* payment is feasible, prepare the ticket.                                *)
(***************************************************************************)
\* Steps 3-5 on the loaded credit.
Prepare(p, credit, verdict) ==
    IF verdict = "fully_paid" THEN Finish(p, "fully_paid", "load", "ok", [loc[p] EXCEPT !.credit = credit])
    ELSE IF verdict = "exceeds" THEN Finish(p, "exceeds", "load", "ok", [loc[p] EXCEPT !.credit = credit])
    ELSE /\ pc' = [pc EXCEPT ![p] = "send"]
         /\ loc' = [loc EXCEPT ![p].credit = credit,
                               ![p].ticket =
                                   Ticket(credit, loc[p].cuotas_a_pagar,
                                          RemitoNumber(credit, loc[p].log_sheet_next_row))]
         /\ hist' = Called(p, "load")

\* The workflow after get_credit_data returned or raised ValueError.
Loaded(p, got) ==
    IF got.status = "ValueError" THEN Finish(p, "data_error", "load", "ok", loc[p])
    ELSE Prepare(p, got.credit, Feasibility(got.credit, loc[p].cuotas_a_pagar))

\* LoadAnswered without the handler of main_logic.py:429: a failure that is
\* no ConnectionError, APIError or ValueError ends the workflow with no message.
LoadAnswered_NoCatchAll(p, res) ==
    IF res \in {"NoConnection", "APIError"} THEN Finish(p, "conn_error", "load", res, loc[p])
    ELSE IF res = "Exception" THEN Finish(p, "none", "load", res, loc[p])
    ELSE Loaded(p, get_credit_data(loc[p].row_index, row_values(sheet, loc[p].row_index)))

\* The workflow after the ledger answered the read of get_credit_data.
LoadAnswered(p, res) ==
    IF res \in {"NoConnection", "APIError"} THEN Finish(p, "conn_error", "load", res, loc[p])
    ELSE IF res = "Exception" THEN Finish(p, "uncertain", "load", res, loc[p])
    ELSE Loaded(p, get_credit_data(loc[p].row_index, row_values(sheet, loc[p].row_index)))

Connected(p, conn) ==
    google_sheet_instance' = [google_sheet_instance EXCEPT ![p] = conn.instance]

LoadCredit(p) ==
    /\ pc[p] = "load"
    /\ \E conn \in ConnectOutcomes(google_sheet_instance[p]) :
       \E res \in RemoteOutcomes(conn) :
           /\ Connected(p, conn)
           /\ LoadAnswered(p, res)
    /\ UNCHANGED <<sheet, ALLOWED_USER_IDS, started, ld>>

\* SendReceipt that goes on to the log write when the delivery failed.
SendReceipt_LogAnyway(p) ==
    /\ pc[p] = "send"
    /\ \E sent \in BOOLEAN :
           /\ pc' = [pc EXCEPT ![p] = "log_scan"]
           /\ hist' = [hist EXCEPT ![p].rendered = TRUE, ![p].delivered = sent]
           /\ loc' = loc
    /\ UNCHANGED <<sheet, ALLOWED_USER_IDS, google_sheet_instance, started, ld>>

(***************************************************************************)
(* Step 6: render the ticket and deliver it (send_photo).  A failure of    *)
(* either is caught at main_logic.py:429.                                  *)
(***************************************************************************)
SendReceipt(p) ==
    /\ pc[p] = "send"
    /\ \E sent \in BOOLEAN :
       IF sent
       THEN /\ pc' = [pc EXCEPT ![p] = "log_scan"]
            /\ hist' = [hist EXCEPT ![p].rendered = TRUE, ![p].delivered = TRUE]
            /\ loc' = loc
       ELSE /\ pc' = [pc EXCEPT ![p] = "done"]
            /\ hist' = [hist EXCEPT ![p].rendered = TRUE, ![p].outcome = "uncertain"]
            /\ loc' = [loc EXCEPT ![p] = Returned(loc[p].kind)]
    /\ UNCHANGED <<sheet, ALLOWED_USER_IDS, google_sheet_instance, started, ld>>

\* LogScan that keeps the rows other workflows have scanned and not yet
\* written: it answers the first empty row above them.
LogScan_Reserved(p) ==
    /\ pc[p] = "log_scan"
    /\ \E conn1 \in ConnectOutcomes(google_sheet_instance[p]) :
       \E conn2 \in ConnectOutcomes(conn1.instance) :
       \E res \in RemoteOutcomes(conn2) :
           IF ~conn1.ok
           THEN /\ google_sheet_instance' = [google_sheet_instance EXCEPT ![p] = conn1.instance]
                /\ Finish(p, "conn_error", "log_connect", "NoConnection", loc[p])
           ELSE /\ google_sheet_instance' = [google_sheet_instance EXCEPT ![p] = conn2.instance]
                /\ IF res # "ok"
                   THEN Finish(p, "uncertain", "log_scan", res, loc[p])
                   ELSE /\ pc' = [pc EXCEPT ![p] = "log_update"]
                        /\ loc' = [loc EXCEPT ![p].log_row_to_write =
                                       IF \E q \in Procs \ {p} :
                                              /\ pc[q] = "log_update"
                                              /\ loc[q].log_row_to_write
                                                   = find_first_empty_log_row(sheet)
                                       THEN find_first_empty_log_row(sheet) + 1
                                       ELSE find_first_empty_log_row(sheet)]
                        /\ hist' = Called(p, "log_scan")
    /\ UNCHANGED <<sheet, ALLOWED_USER_IDS, started, ld>>

(***************************************************************************)
(* Step 7, log_payment_and_update_credit up to the row scan: the           *)
(* connection (sheet.py:290), then find_first_empty_log_row inside the     *)
(* try block, whose failures all become RuntimeError (sheet.py:332).       *)
(***************************************************************************)
LogScan(p) ==
    /\ pc[p] = "log_scan"
    /\ \E conn1 \in ConnectOutcomes(google_sheet_instance[p]) :
       \E conn2 \in ConnectOutcomes(conn1.instance) :
       \E res \in RemoteOutcomes(conn2) :
           IF ~conn1.ok
           THEN /\ google_sheet_instance' = [google_sheet_instance EXCEPT ![p] = conn1.instance]
                /\ Finish(p, "conn_error", "log_connect", "NoConnection", loc[p])
           ELSE /\ google_sheet_instance' = [google_sheet_instance EXCEPT ![p] = conn2.instance]
                /\ IF res # "ok"
                   THEN Finish(p, "uncertain", "log_scan", res, loc[p])
                   ELSE /\ pc' = [pc EXCEPT ![p] = "log_update"]
                        /\ loc' = [loc EXCEPT ![p].log_row_to_write =
                                       find_first_empty_log_row(sheet)]
                        /\ hist' = Called(p, "log_scan")
    /\ UNCHANGED <<sheet, ALLOWED_USER_IDS, started, ld>>

\* LogUpdate that lets an APIError of the update pass as it is.
LogUpdate_PlainApiError(p) ==
    /\ pc[p] = "log_update"
    /\ \E rc \in RemoteResults :
       IF rc = "ok"
       THEN /\ sheet' = SheetUpdate(sheet, loc[p].log_row_to_write,
                                    log_entry_data(loc[p].credit, loc[p].cuotas_a_pagar))
            /\ pc' = [pc EXCEPT ![p] = "done"]
            /\ hist' = [hist EXCEPT ![p].calls = Append(@, "update"),
                                    ![p].wrote = loc[p].log_row_to_write,
                                    ![p].outcome = "registered"]
            /\ loc' = loc
       ELSE /\ sheet' = sheet
            /\ Finish(p, "uncertain", "update", rc, loc[p])
    /\ UNCHANGED <<ALLOWED_USER_IDS, google_sheet_instance, started, ld>>

(***************************************************************************)
(* Step 7, the write: sheet.update on the connection obtained before.  An  *)
(* APIError becomes ConnectionError (sheet.py:328), anything else          *)
(* RuntimeError; on success the confirmation is sent.                      *)
(***************************************************************************)
LogUpdate(p) ==
    /\ pc[p] = "log_update"
    /\ \E rc \in RemoteResults :
       IF rc = "ok"
       THEN /\ sheet' = SheetUpdate(sheet, loc[p].log_row_to_write,
                                    log_entry_data(loc[p].credit, loc[p].cuotas_a_pagar))
            /\ pc' = [pc EXCEPT ![p] = "done"]
            /\ hist' = [hist EXCEPT ![p].calls = Append(@, "update"),
                                    ![p].wrote = loc[p].log_row_to_write,
                                    ![p].outcome = "registered"]
            /\ loc' = loc
       ELSE /\ sheet' = sheet
            /\ Finish(p, IF rc = "APIError" THEN "conn_error" ELSE "uncertain",
                      "update", rc, loc[p])
    /\ UNCHANGED <<ALLOWED_USER_IDS, google_sheet_instance, started, ld>>

(***************************************************************************)
(* process_payment_request.                                                *)
(***************************************************************************)
StartText(p) ==
    /\ pc[p] \in {"idle", "done"}
    /\ started < MaxInteractions
    /\ started' = started + 1
    /\ \E update \in TextUpdates :
       LET user == update[1]
           text == update[2]
           parsed == ParseText(text)
           args == [IdleLoc EXCEPT !.kind = "text", !.user = user, !.data = text]
           outcome == IF ~is_allowed_user(user, ALLOWED_USER_IDS) THEN "ignored"
                      ELSE IF parsed.status = "format" THEN "ignored"
                      ELSE IF parsed.status = "number" THEN "invalid_number"
                      ELSE "none"
       IN  /\ loc' = [loc EXCEPT ![p] = IF outcome = "none" THEN args ELSE Returned("text")]
           /\ hist' = [hist EXCEPT ![p] = [FreshHist EXCEPT !.outcome = outcome]]
           /\ pc' = [pc EXCEPT ![p] = IF outcome = "none" THEN "search" ELSE "done"]
    /\ UNCHANGED <<sheet, ALLOWED_USER_IDS, google_sheet_instance, ld>>

\* Search that takes a failed read for an empty table.
Search_Swallow(p) ==
    /\ pc[p] = "search"
    /\ \E conn \in ConnectOutcomes(google_sheet_instance[p]) :
       \E res \in RemoteOutcomes(conn) :
       LET parsed == ParseText(loc[p].data)
           client_credits == find_client_credits(sheet, parsed.nombre, parsed.apellido)
       IN  /\ google_sheet_instance' = [google_sheet_instance EXCEPT ![p] = conn.instance]
           /\ pc' = [pc EXCEPT ![p] = "done"]
           /\ loc' = [loc EXCEPT ![p] = IF res = "ok" THEN @ ELSE Returned(loc[p].kind)]
           /\ hist' = [hist EXCEPT
                  ![p].calls = Append(@, "search"),
                  ![p].failed = IF res = "ok" THEN @ ELSE @ \cup {"search"},
                  ![p].raised = IF res = "ok" THEN @ ELSE res,
                  ![p].outcome = IF res # "ok" \/ client_credits = <<>> THEN "no_credits"
                                 ELSE "offered",
                  ![p].buttons = IF res = "ok"
                                 THEN Buttons(client_credits, parsed.num_cuotas)
                                 ELSE <<>>]
    /\ UNCHANGED <<sheet, ALLOWED_USER_IDS, started, ld>>

Search(p) ==
    /\ pc[p] = "search"
    /\ \E conn \in ConnectOutcomes(google_sheet_instance[p]) :
       \E res \in RemoteOutcomes(conn) :
       LET parsed == ParseText(loc[p].data)
           client_credits == find_client_credits(sheet, parsed.nombre, parsed.apellido)
       IN  /\ google_sheet_instance' = [google_sheet_instance EXCEPT ![p] = conn.instance]
           /\ pc' = [pc EXCEPT ![p] = "done"]
           /\ loc' = [loc EXCEPT ![p] = IF res = "ok" THEN @ ELSE Returned(loc[p].kind)]
           /\ hist' = [hist EXCEPT
                  ![p].calls = Append(@, "search"),
                  ![p].failed = IF res = "ok" THEN @ ELSE @ \cup {"search"},
                  ![p].raised = IF res = "ok" THEN @ ELSE res,
                  ![p].outcome = IF res \in {"NoConnection", "APIError"} THEN "search_conn_error"
                                 ELSE IF res = "Exception" THEN "search_unexpected"
                                 ELSE IF client_credits = <<>> THEN "no_credits"
                                 ELSE "offered",
                  ![p].buttons = IF res = "ok"
                                 THEN Buttons(client_credits, parsed.num_cuotas)
                                 ELSE <<>>]
    /\ UNCHANGED <<sheet, ALLOWED_USER_IDS, started, ld>>

Next ==
    \E p \in Procs :
        \/ StartCallback(p)
        \/ StartText(p)
        \/ RemitoScan(p)
        \/ LoadCredit(p)
        \/ SendReceipt(p)
        \/ LogScan(p)
        \/ LogUpdate(p)
        \/ Search(p)

Spec == Init /\ [][Next]_vars

\* The steps of the workflow p is running: each is a call that returns or
\* raises, so a workflow that has a step to take takes it.
Step(p) ==
    \/ RemitoScan(p)
    \/ LoadCredit(p)
    \/ SendReceipt(p)
    \/ LogScan(p)
    \/ LogUpdate(p)

SpecLive == Spec /\ \A p \in Procs : WF_vars(Step(p))

(***************************************************************************)
(* get_credit_data alone, on rows made of the cells below.                 *)
(***************************************************************************)
NombreCells == { <<>>,
      <<"A", "l">> }

CodigoCells == { <<>>,
      <<"N", "/", "A">>,
      <<" ", "N", "/", "A", " ">>,
      <<"A", "_", "1">> }

IdArticuloCells == { <<>>,
      <<" ">>,
      <<"N", "/", "A">>,
      <<"7">>,
      <<"x", "7">> }

ImporteCuotaCells ==
    { <<>>,
      <<"a", "b", "c">>,
      <<"0">>,
      <<"-", "5">>,
      <<"1", ".", "5", "0", "0", ",", "0", "0">>,
      <<"$", "1", "0", "0">>,
      <<"0", ",", "0", "0">>,
      <<"1", ",", "2", ",", "3">>,
      <<",", "5">> }

TotalCuotasCells ==
    { <<>>,
      <<"x">>,
      <<"0">>,
      <<"-", "1">>,
      <<"3">>,
      <<" ", "2", " ">>,
      <<"2", ",", "9">>,
      <<"1", ".", "0", "0", "0">>,
      <<"x", ",", "3">> }

CuotasAbonadasCells == { <<>>,
      <<"x">>,
      <<"1">>,
      <<"-", "1">> }

LoadCells ==
    [nombre : NombreCells, codigo : CodigoCells, id_articulo : IdArticuloCells,
     importe_cuota : ImporteCuotaCells, total_cuotas : TotalCuotasCells,
     cuotas_abonadas : CuotasAbonadasCells]

\* The sheet row holding the cells (its other cells are filled).
LoadRow(cells) ==
    SheetRow(<<>>, MasterRow(cells.nombre, <<"B", "a">>, cells.codigo, cells.id_articulo,
                             cells.importe_cuota, cells.total_cuotas,
                             cells.cuotas_abonadas))

InitLoad ==
    /\ ld \in [phase : {"row"}, cells : LoadCells, res : {[status |-> "none"]}]
    /\ sheet = [master |-> MasterTable, base |-> 0, log |-> <<>>]
    /\ ALLOWED_USER_IDS = {1}
    /\ google_sheet_instance = [p \in Procs |-> FALSE]
    /\ pc = [p \in Procs |-> "idle"]
    /\ loc = [p \in Procs |-> IdleLoc]
    /\ hist = [p \in Procs |-> FreshHist]
    /\ started = 0

ReadCredit ==
    /\ ld.phase = "row"
    /\ ld' = [ld EXCEPT !.phase = "read", !.res = get_credit_data(2, LoadRow(ld.cells))]
    /\ UNCHANGED <<sheet, ALLOWED_USER_IDS, google_sheet_instance, pc, loc, hist, started>>

NextLoad == ReadCredit

SpecLoad == InitLoad /\ [][NextLoad]_vars

(***************************************************************************)
(* Properties.                                                             *)
(***************************************************************************)
\* The ledger calls of log_payment_and_update_credit.
LogWriteCalls == {"log_connect", "log_scan", "update"}

\* How often a call was made in an interaction.
Times(calls, c) == Cardinality({i \in 1..Len(calls) : calls[i] = c})

\* The handler of p has loaded a credit.
HasCredit(p) == loc[p].credit # NoCredit

\* Nothing of the receipt happened in the interaction of p and no row was
\* written by it.
NothingDone(p) ==
    /\ ~hist[p].rendered
    /\ ~hist[p].delivered
    /\ hist[p].wrote = 0
    /\ Times(hist[p].calls, "update") = 0

\* C1: a payment selected on a credit whose paid count is at least its total
\* count ends with the 'already fully paid' message, whatever the number of
\* instalments asked; no row is written, no receipt rendered or delivered.
C1_FullyPaidRejected ==
    \A p \in Procs :
        (HasCredit(p) /\ loc[p].credit.cuotas_abonadas_antes >= loc[p].credit.total_cuotas)
        => /\ pc[p] = "done"
           /\ hist[p].outcome = "fully_paid"
           /\ NothingDone(p)

C1_Witness ==
    \E p \in Procs :
        /\ HasCredit(p)
        /\ loc[p].cuotas_a_pagar > 0
        /\ loc[p].credit.cuotas_abonadas_antes = loc[p].credit.total_cuotas
        /\ hist[p].outcome = "fully_paid"

MissingTexts == { <<>>,
      <<" ">>,
      <<"N", "/", "A">>,
      <<" ", "N", "/", "A", " ">> }

PositiveAmountTexts == { <<"1", ".", "5", "0", "0", ",", "0", "0">>,
      <<"$", "1", "0", "0">>,
      <<",", "5">> }

PositiveCountTexts == { <<"3">>,
      <<" ", "2", " ">>,
      <<"2", ",", "9">>,
      <<"1", ".", "0", "0", "0">> }

NoCountTexts == { <<>>,
      <<"x">> }

\* C10: get_credit_data on a row that is not empty raises the data error
\* exactly when the item identifier or the item code is empty or 'N/A', or
\* the instalment amount or the instalment count is not above zero (empty
\* and unparseable cells count as zero); otherwise it returns the credit, an
\* empty or unparseable paid count read as 0 and an empty name as 'N/A'.
C10_LoadValidation ==
    ld.phase = "read"
    => /\ ld.res.status \in {"ok", "ValueError"}
       /\ ld.res.status = "ValueError"
          <=> \/ ld.cells.id_articulo \in MissingTexts
              \/ ld.cells.codigo \in MissingTexts
              \/ ld.cells.importe_cuota \notin PositiveAmountTexts
              \/ ld.cells.total_cuotas \notin PositiveCountTexts
       /\ ld.res.status = "ValueError" => ld.res.why # "no_data"
       /\ ld.res.status = "ok"
          => /\ ld.cells.cuotas_abonadas \in NoCountTexts
                => ld.res.credit.cuotas_abonadas_antes = 0
             /\ ld.cells.nombre = <<>> => ld.res.credit.nombre = NA
             /\ ld.res.credit.codigo = Strip(ld.cells.codigo)
             /\ ld.res.credit.id_articulo = Strip(ld.cells.id_articulo)

C10_Witness ==
    /\ ld.phase = "read"
    /\ ld.res.status = "ok"
    /\ ld.cells.cuotas_abonadas = <<"x">>
    /\ ld.cells.nombre = <<>>
    /\ ld.cells.total_cuotas = <<"2", ",", "9">>

\* The step of p writes the log row it scanned, nine cells (A-I), and leaves
\* every other row as it was.
WritesOneLogRow(p) ==
    /\ pc[p] = "log_update"
    /\ hist'[p].outcome = "registered"
    /\ hist'[p].wrote = loc[p].log_row_to_write
    /\ hist'[p].wrote > sheet.base + 1
    /\ Len(sheet'.log[hist'[p].wrote - sheet.base - 1])
           = col_to_index(COL_LOG_CANT_CUOTAS_PAGADAS) + 1
    /\ col_to_index(COL_LOG_CANT_CUOTAS_PAGADAS) < col_to_index(COL_MASTER_NOMBRE)
    /\ \A j \in 1..Len(sheet'.log) :
           j # hist'[p].wrote - sheet.base - 1
           => sheet'.log[j] = LogCells(sheet, sheet.base + 1 + j)

\* C3: no step changes a cell of the master table (columns M-X); the sheet
\* changes only by the write of a payment that ends as registered, which
\* sets the cells A-I of one log row.
C3_MasterNeverWritten ==
    [][/\ sheet'.master = sheet.master
       /\ sheet'.base = sheet.base
       /\ sheet'.log # sheet.log => \E p \in Procs : WritesOneLogRow(p)]_vars

C3_Witness ==
    \E p \in Procs :
        /\ hist[p].outcome = "registered"
        /\ hist[p].wrote = 2
        /\ Len(sheet.log) = 1
        /\ sheet.master = MasterTable

\* C4 (as claimed): a log write never changes a row that holds an entry,
\* also once the rows 2-1000 are all filled.
C4_AppendOnly ==
    [][\A j \in 1..Len(sheet.log) :
           sheet.log[j] # <<>> => sheet'.log[j] = sheet.log[j]]_vars

\* C5 (as claimed): the row in the receipt number of a registered payment is
\* the row its log entry was written to.
C5_ReceiptRowIsLogRow ==
    \A p \in Procs :
        hist[p].wrote # 0
        => loc[p].ticket.remito = RemitoNumber(loc[p].credit, hist[p].wrote)

\* C6: the receipt is delivered before the log write is begun: a workflow
\* that made a call of the log write, or wrote a row, has delivered; when the
\* log write fails the receipt stays delivered and no row is written for it.
C6_DeliveryBeforeLog ==
    \A p \in Procs :
        /\ (hist[p].wrote # 0 \/ \E c \in LogWriteCalls : Times(hist[p].calls, c) > 0)
           => hist[p].rendered /\ hist[p].delivered
        /\ hist[p].failed \cap LogWriteCalls # {}
           => /\ hist[p].delivered
              /\ hist[p].wrote = 0
              /\ pc[p] = "done"
              /\ hist[p].outcome # "registered"

C6_Witness ==
    \E p \in Procs :
        /\ hist[p].delivered
        /\ "update" \in hist[p].failed
        /\ hist[p].wrote = 0
        /\ sheet.log = <<>>

\* C7 (as claimed): every failure of the log write after the delivery ends
\* with the 'payment status uncertain' message.
C7_AlwaysUncertain ==
    \A p \in Procs :
        (hist[p].delivered /\ hist[p].failed \cap LogWriteCalls # {})
        => hist[p].outcome = "uncertain"

\* C7 (amended): a failure of the log write after the delivery ends with
\* the 'database connection error' message when the connection is
\* unavailable or the update answers an API error, and with the 'payment
\* status uncertain' message when the row scan fails or the update fails
\* otherwise; the write is not tried again.
C7_MessageByFailure ==
    \A p \in Procs :
        (hist[p].delivered /\ hist[p].failed \cap LogWriteCalls # {})
        => /\ pc[p] = "done"
           /\ hist[p].wrote = 0
           /\ \A c \in LogWriteCalls : Times(hist[p].calls, c) <= 1
           /\ hist[p].outcome =
                  IF \/ "log_connect" \in hist[p].failed
                     \/ ("update" \in hist[p].failed /\ hist[p].raised = "APIError")
                  THEN "conn_error"
                  ELSE "uncertain"

C7_Witness ==
    \E p \in Procs :
        /\ hist[p].delivered
        /\ "update" \in hist[p].failed
        /\ hist[p].raised = "APIError"
        /\ hist[p].outcome = "conn_error"

\* The messages that tell of an error of the ledger.
ErrorOutcomes == {"conn_error", "uncertain", "search_conn_error", "search_unexpected"}

\* The ledger calls of an interaction.
LedgerCalls == {"remito_scan", "load", "search"} \cup LogWriteCalls

\* C8 (as claimed): a failed ledger call ends the workflow at once with an
\* error message: it is the last call made.
C8_EveryFailureSurfaces ==
    \A p \in Procs :
        hist[p].failed # {}
        => /\ pc[p] = "done"
           /\ hist[p].outcome \in ErrorOutcomes
           /\ hist[p].calls[Len(hist[p].calls)] \in hist[p].failed

\* C8 (amended): no ledger call is tried again; a failed credit load,
\* credit search or log write ends the workflow at once with an error
\* message and nothing written; a failure of the row scan made for the
\* receipt number is passed over, the workflow going on with the receipt
\* number 'N/A'.
C8_FailuresButRemitoSurface ==
    \A p \in Procs :
        /\ \A c \in LedgerCalls : Times(hist[p].calls, c) <= 1
        /\ hist[p].failed \ {"remito_scan"} # {}
           => /\ pc[p] = "done"
              /\ hist[p].outcome \in ErrorOutcomes
              /\ hist[p].calls[Len(hist[p].calls)] \in hist[p].failed
              /\ hist[p].wrote = 0
        /\ ("remito_scan" \in hist[p].failed /\ loc[p].ticket # NoTicket)
           => loc[p].ticket.remito = REMITO_NA

C8_Witness ==
    \E p \in Procs :
        /\ "remito_scan" \in hist[p].failed
        /\ hist[p].delivered
        /\ hist[p].outcome = "registered"
        /\ loc[p].ticket.remito = REMITO_NA

\* The inputs that pass the checks of the handlers.
ValidInputs ==
    { <<"s", "e", "l", "e", "c", "t", "_", "2", "_", "2", "_", "A", "_", "1">>,
      <<"s", "e", "l", "e", "c", "t", "_", "5", "_", "2", "_", "D", "4">>,
      <<"s", "e", "l", "e", "c", "t", "_", "3", "_", "1", "_", "B", "2">>,
      <<"s", "e", "l", "e", "c", "t", "_", "4", "_", "1", "_", "C", "3">>,
      <<"s", "e", "l", "e", "c", "t", "_", "5", "_", "1", "_", "E">>,
      <<"s", "e", "l", "e", "c", "t", "_", "6", "_", "1", "_", "E">>,
      <<"s", "e", "l", "e", "c", "t", "_", "7", "_", "1", "_", "Z">> }
    \cup { <<"A", "l", " ", "B", "a", " ", "2">>,
      <<" ", "a", "l", " ", " ", "b", "a", " ", "2">>,
      <<"C", "Y", " ", "d", "i", " ", "1">>,
      <<"Z", "e", "d", " ", "B", "a", " ", "1">> }

\* C9: an input that fails the checks (a message that is not three parts or
\* whose third part is no integer above 0; callback data whose action is not
\* 'select', whose row is no integer above 1 or whose count is no integer
\* above 0) is rejected before any ledger access: the first ledger call of an
\* interaction is made on a valid input, and a rejection has made none.
C9_RejectedBeforeLedger ==
    [][\A p \in Procs :
           /\ (hist[p].calls = <<>> /\ hist'[p].calls # <<>>)
              => loc[p].data \in ValidInputs
           /\ hist[p].outcome \in {"invalid_selection", "invalid_number", "ignored", "denied"}
              => hist[p].calls = <<>>]_vars

C9_Witness ==
    \E p, q \in Procs :
        /\ hist[p].outcome = "invalid_selection"
        /\ hist[p].calls = <<>>
        /\ pc[p] = "done"
        /\ hist[q].outcome = "invalid_number"
        /\ hist[q].calls = <<>>

(***************************************************************************)
(* find_client_credits alone, on master tables of three rows (2-4) and a   *)
(* row below the range read (501).  Each row and each search carries who   *)
(* it names; a row also whether its item code and identifier are filled    *)
(* (not blank) and whether they are valid (filled and not 'N/A').          *)
(***************************************************************************)
FindRows ==
    { [cells |-> MasterRow(<<"A", "l">>, <<"B", "a">>, <<"A", "_", "1">>, <<"7">>, <<"1", "0", "0">>, <<"2">>, <<"0">>),
       who |-> "al", filled |-> TRUE, valid |-> TRUE],
      [cells |-> MasterRow(<<" ", "A", "L", " ">>, <<"b", "A", " ">>, <<"B", "2">>, <<"8">>, <<"1", "0", "0">>, <<"2">>, <<"0">>),
       who |-> "al", filled |-> TRUE, valid |-> TRUE],
      [cells |-> MasterRow(<<"A", "l">>, <<"B", "a">>, <<>>, <<"7">>, <<"1", "0", "0">>, <<"2">>, <<"0">>),
       who |-> "al", filled |-> FALSE, valid |-> FALSE],
      [cells |-> MasterRow(<<"A", "l">>, <<"B", "a">>, <<" ">>, <<"7">>, <<"1", "0", "0">>, <<"2">>, <<"0">>),
       who |-> "al", filled |-> FALSE, valid |-> FALSE],
      [cells |-> MasterRow(<<"A", "l">>, <<"B", "a">>, <<"C", "3">>, <<>>, <<"1", "0", "0">>, <<"2">>, <<"0">>),
       who |-> "al", filled |-> FALSE, valid |-> FALSE],
      [cells |-> MasterRow(<<"A", "l">>, <<"B", "a">>, <<"N", "/", "A">>, <<"9">>, <<"1", "0", "0">>, <<"2">>, <<"0">>),
       who |-> "al", filled |-> TRUE, valid |-> FALSE],
      [cells |-> MasterRow(<<"B", "o">>, <<"B", "a">>, <<"D", "4">>, <<"5">>, <<"1", "0", "0">>, <<"2">>, <<"0">>),
       who |-> "bo", filled |-> TRUE, valid |-> TRUE],
      [cells |-> [k \in 1..12 |-> <<>>], who |-> "none", filled |-> FALSE, valid |-> FALSE] }

FindSearches ==
    { [nombre |-> <<"A", "l">>, apellido |-> <<"B", "a">>, who |-> "al"],
      [nombre |-> <<"a", "L">>, apellido |-> <<"B", "A">>, who |-> "al"],
      [nombre |-> <<"b", "o">>, apellido |-> <<"b", "a">>, who |-> "bo"],
      [nombre |-> <<"A", "l">>, apellido |-> <<"B", "o">>, who |-> "nobody"] }

FindInputs == [r2 : FindRows, r3 : FindRows, r4 : FindRows, search : FindSearches]

\* The row below the range: a valid credit of 'Al Ba'.
RowBelowRange ==
    MasterRow(<<"A", "l">>, <<"B", "a">>, <<"Z", "9">>, <<"4">>, <<"1", "0", "0">>,
              <<"2">>, <<"0">>)

FindSheet(input) ==
    [master |-> (2 :> input.r2.cells) @@ (3 :> input.r3.cells) @@ (4 :> input.r4.cells)
                @@ ((MASTER_SCAN_LAST_ROW + 1) :> RowBelowRange),
     base |-> 0, log |-> <<>>]

InitFind ==
    /\ ld \in [phase : {"table"}, cells : FindInputs, res : {[status |-> "none"]}]
    /\ sheet = FindSheet(ld.cells)
    /\ ALLOWED_USER_IDS = {1}
    /\ google_sheet_instance = [p \in Procs |-> FALSE]
    /\ pc = [p \in Procs |-> "idle"]
    /\ loc = [p \in Procs |-> IdleLoc]
    /\ hist = [p \in Procs |-> FreshHist]
    /\ started = 0

FindCredits ==
    /\ ld.phase = "table"
    /\ ld' = [ld EXCEPT !.phase = "found",
                        !.res = [status |-> "ok",
                                 matches |-> find_client_credits(sheet, ld.cells.search.nombre,
                                                                 ld.cells.search.apellido)]]
    /\ UNCHANGED <<sheet, ALLOWED_USER_IDS, google_sheet_instance, pc, loc, hist, started>>

NextFind == FindCredits

SpecFind == InitFind /\ [][NextFind]_vars

\* The row numbers of the matches returned, in the order returned.
MatchRows(matches) == [k \in 1..Len(matches) |-> matches[k].row_index]

OneIf(cond, r) == IF cond THEN <<r>> ELSE <<>>

\* C11 (as claimed): the matches are, in table order, the rows naming the
\* searched client whose item code and item identifier are not empty.
C11_NonEmptyRowsReturned ==
    ld.phase = "found"
    => MatchRows(ld.res.matches)
           = OneIf(ld.cells.r2.who = ld.cells.search.who /\ ld.cells.r2.filled, 2)
             \o OneIf(ld.cells.r3.who = ld.cells.search.who /\ ld.cells.r3.filled, 3)
             \o OneIf(ld.cells.r4.who = ld.cells.search.who /\ ld.cells.r4.filled, 4)

\* C11 (amended): the matches are, in table order and numbered position + 2,
\* the rows 2-500 naming the searched client (trimmed, letter case ignored)
\* whose item code and item identifier are neither empty nor 'N/A'; a row
\* lacking either is never returned, and the letter case of stored and
\* searched names does not matter.
C11_ValidRowsReturned ==
    ld.phase = "found"
    => /\ MatchRows(ld.res.matches)
              = OneIf(ld.cells.r2.who = ld.cells.search.who /\ ld.cells.r2.valid, 2)
                \o OneIf(ld.cells.r3.who = ld.cells.search.who /\ ld.cells.r3.valid, 3)
                \o OneIf(ld.cells.r4.who = ld.cells.search.who /\ ld.cells.r4.valid, 4)
       /\ \A k \in 1..Len(ld.res.matches) :
              /\ ld.res.matches[k].codigo \notin {<<>>, NA}
              /\ ld.res.matches[k].id_articulo \notin {<<>>, NA}

C11_Witness ==
    /\ ld.phase = "found"
    /\ ld.cells.search.nombre = <<"a", "L">>
    /\ ld.cells.r2.who = "none"
    /\ ld.cells.r3.cells[1] = <<" ", "A", "L", " ">>
    /\ ld.cells.r4.cells[5] = NA
    /\ MatchRows(ld.res.matches) = <<3>>

(***************************************************************************)
(* The ticket of an accepted payment alone: a credit read by               *)
(* get_credit_data from a row with the given counts and amount cell, and a *)
(* number of instalments that passes the feasibility checks.  Each amount  *)
(* cell carries its value in hundredths.  The amounts have at most two     *)
(* decimals, for which the products and their two-decimal rendering are    *)
(* exact in binary floating point as well.                                 *)
(***************************************************************************)
TicketTotals == {1, 2, 12}

TicketAmounts ==
    { [text |-> <<"1", ".", "5", "0", "0", ",", "0", "0">>, cents |-> 150000],
      [text |-> <<"0", ",", "5">>, cents |-> 50],
      [text |-> <<"9", "9", ",", "9", "9">>, cents |-> 9999],
      [text |-> <<"$", "1", "0", "0">>, cents |-> 10000] }

TicketInputs ==
    {x \in [total : TicketTotals, paid : 0..11, cuotas : 1..12, importe : TicketAmounts] :
        x.paid < x.total /\ x.cuotas <= x.total - x.paid}

TicketRow(input) ==
    LoadRow([nombre |-> <<"A", "l">>, codigo |-> <<"A", "_", "1">>, id_articulo |-> <<"7">>,
             importe_cuota |-> input.importe.text, total_cuotas |-> IntToStr(input.total),
             cuotas_abonadas |-> IntToStr(input.paid)])

\* Steps 4 and 5 of generate_and_send_receipt on a loaded credit, with the
\* amounts as the ticket text shows them.
TicketOf(credit, cuotas_a_pagar, ticket) ==
    [status |-> Feasibility(credit, cuotas_a_pagar),
     ticket |-> ticket,
     saldo_shown |-> FormatMoney(ticket.saldo_pagado_total),
     total_shown |-> FormatMoney(ticket.total_monto_pago)]

TicketResult(credit, cuotas_a_pagar) ==
    TicketOf(credit, cuotas_a_pagar, Ticket(credit, cuotas_a_pagar, REMITO_NA))

InitTicket ==
    /\ ld \in [phase : {"request"}, cells : TicketInputs, res : {[status |-> "none"]}]
    /\ sheet = [master |-> MasterTable, base |-> 0, log |-> <<>>]
    /\ ALLOWED_USER_IDS = {1}
    /\ google_sheet_instance = [p \in Procs |-> FALSE]
    /\ pc = [p \in Procs |-> "idle"]
    /\ loc = [p \in Procs |-> IdleLoc]
    /\ hist = [p \in Procs |-> FreshHist]
    /\ started = 0

BuildTicket ==
    /\ ld.phase = "request"
    /\ ld' = [ld EXCEPT !.phase = "ticket",
                        !.res = TicketResult(get_credit_data(2, TicketRow(ld.cells)).credit,
                                             ld.cells.cuotas)]
    /\ UNCHANGED <<sheet, ALLOWED_USER_IDS, google_sheet_instance, pc, loc, hist, started>>

NextTicket == BuildTicket

SpecTicket == InitTicket /\ [][NextTicket]_vars

\* A decimal in hundredths, when it has no more than two decimals.
InHundredths(d) == d.num * Pow10(2 - d.scale)

\* C12: for every accepted payment the ticket carries the paid-to-date
\* amount = instalment amount x (instalments paid + instalments paid now)
\* and the amount due now = instalment amount x instalments paid now.
C12_TicketAmounts ==
    ld.phase = "ticket"
    => /\ ld.res.status = "payable"
       /\ ld.res.ticket.saldo_pagado_total.scale <= 2
       /\ ld.res.ticket.total_monto_pago.scale <= 2
       /\ InHundredths(ld.res.ticket.saldo_pagado_total)
              = ld.cells.importe.cents * (ld.cells.paid + ld.cells.cuotas)
       /\ InHundredths(ld.res.ticket.total_monto_pago)
              = ld.cells.importe.cents * ld.cells.cuotas

\* total 12, paid 3, amount 1500.00, pay 2: 7500.00 and 3000.00
C12_Witness ==
    /\ ld.phase = "ticket"
    /\ ld.cells.total = 12 /\ ld.cells.paid = 3 /\ ld.cells.cuotas = 2
    /\ ld.cells.importe.cents = 150000
    /\ ld.res.saldo_shown = <<"7", ",", "5", "0", "0", ".", "0", "0">>
    /\ ld.res.total_shown = <<"3", ",", "0", "0", "0", ".", "0", "0">>

\* C13: for every accepted payment the range label is '<start> to <end> of
\* <total>', start = paid + 1, end = paid + instalments paid now, and it is
\* '<start> of <total>' exactly when one instalment is paid.
C13_RangeLabel ==
    ld.phase = "ticket"
    => /\ ld.res.ticket.rango =
              IF ld.cells.cuotas = 1
              THEN IntToStr(ld.cells.paid + 1) \o <<" ", "o", "f", " ">>
                   \o IntToStr(ld.cells.total)
              ELSE IntToStr(ld.cells.paid + 1) \o <<" ", "t", "o", " ">>
                   \o IntToStr(ld.cells.paid + ld.cells.cuotas) \o <<" ", "o", "f", " ">>
                   \o IntToStr(ld.cells.total)
       /\ InSeq(ld.res.ticket.rango, "t") <=> ld.cells.cuotas # 1

\* '4 of 12'
C13_Witness ==
    /\ ld.phase = "ticket"
    /\ ld.cells.total = 12 /\ ld.cells.paid = 3 /\ ld.cells.cuotas = 1
    /\ ld.res.ticket.rango = <<"4", " ", "o", "f", " ", "1", "2">>

\* The log rows a scan can answer, as four digits.
RowLabels ==
    (2 :> <<"0", "0", "0", "2">>) @@ (3 :> <<"0", "0", "0", "3">>) @@ (4 :> <<"0", "0", "0", "4">>) @@ (5 :> <<"0", "0", "0", "5">>) @@ (6 :> <<"0", "0", "0", "6">>)
    @@ (1001 :> <<"1", "0", "0", "1">>) @@ (1002 :> <<"1", "0", "0", "2">>)

\* C14: the receipt number is the item identifier padded to three digits,
\* '/', the log row padded to four digits when the identifier is an integer
\* (master row 2, identifier 7); when it is not (master row 5, identifier
\* 'x7') the receipt number is the marker 'Error/Format' and the payment goes
\* on: unless a later step fails, the receipt is delivered and the log row
\* written.
C14_ReceiptNumber ==
    \A p \in Procs :
        (loc[p].ticket # NoTicket /\ loc[p].log_sheet_next_row # 0)
        => /\ loc[p].row_index \in {2, 5}
           /\ loc[p].row_index = 2
              => loc[p].ticket.remito
                     = <<"0", "0", "7", "/">> \o RowLabels[loc[p].log_sheet_next_row]
           /\ loc[p].row_index = 5
              => /\ loc[p].ticket.remito = <<"E", "r", "r", "o", "r", "/", "F", "o", "r", "m", "a", "t">>
                 /\ pc[p] \in {"send", "log_scan", "log_update", "done"}
                 /\ (pc[p] = "done" /\ hist[p].failed = {})
                    => /\ hist[p].delivered
                       /\ hist[p].outcome = "registered"
                       /\ hist[p].wrote # 0

C14_Witness ==
    \E p \in Procs :
        /\ loc[p].row_index = 5
        /\ loc[p].ticket # NoTicket
        /\ loc[p].ticket.remito = REMITO_ERROR
        /\ hist[p].delivered
        /\ hist[p].outcome = "registered"

(***************************************************************************)
(* connect_to_sheet alone: one function instance calls it again and again. *)
(* ld.cells is the list of what the environment answered to each call      *)
(* (alive: the probe of the cached connection, est: the establishment);    *)
(* ld.res numbers the connections opened and tells which one the cache     *)
(* holds (0: none).                                                        *)
(***************************************************************************)
MaxConnects == 4

InitConnect ==
    /\ ld = [phase |-> "connect", cells |-> <<>>,
             res |-> [status |-> "none", ok |-> FALSE, opened |-> 0, current |-> 0,
                      returned |-> 0]]
    /\ sheet = [master |-> MasterTable, base |-> 0, log |-> <<>>]
    /\ ALLOWED_USER_IDS = {1}
    /\ google_sheet_instance = [p \in Procs |-> FALSE]
    /\ pc = [p \in Procs |-> "idle"]
    /\ loc = [p \in Procs |-> IdleLoc]
    /\ hist = [p \in Procs |-> FreshHist]
    /\ started = 0

\* The numbering after a run: a connection opened gets the next number, a
\* reused one keeps its own; `returned` is the one handed to the caller.
Connection(run, before) ==
    [status |-> "called",
     ok |-> run.ok,
     opened |-> IF run.opened THEN before.opened + 1 ELSE before.opened,
     current |-> IF run.opened THEN before.opened + 1
                 ELSE IF run.reused THEN before.current ELSE 0,
     returned |-> IF run.opened THEN before.opened + 1
                  ELSE IF run.reused THEN before.current ELSE 0]

Connect ==
    /\ Len(ld.cells) < MaxConnects
    /\ \E alive \in BOOLEAN, est \in BOOLEAN :
           /\ ld' = [ld EXCEPT
                  !.cells = Append(@, [cached |-> google_sheet_instance[1],
                                       alive |-> alive, est |-> est]),
                  !.res = Connection(ConnectRun(google_sheet_instance[1], alive, est), @)]
           /\ google_sheet_instance' =
                  [google_sheet_instance EXCEPT
                       ![1] = connect_to_sheet(google_sheet_instance[1], alive, est).instance]
    /\ UNCHANGED <<sheet, ALLOWED_USER_IDS, pc, loc, hist, started>>

NextConnect == Connect

SpecConnect == InitConnect /\ [][NextConnect]_vars

\* C15: the connection is opened at the first call, not before, and cached.
\* A call finding a live cached connection returns that one and opens
\* nothing; a call finding it stale discards it and opens a new one at
\* once; a call fails exactly when no connection is cached or it is stale
\* and the establishment fails; after a failed call the cache is empty and
\* the next call tries the establishment again.
C15_ConnectionCache ==
    [][LET call == ld'.cells[Len(ld'.cells)]
       IN  /\ ld.cells = <<>> => ld.res.current = 0 /\ ~google_sheet_instance[1]
           /\ call.cached = (ld.res.current # 0)
           /\ (call.cached /\ call.alive)
              => /\ ld'.res.ok
                 /\ ld'.res.returned = ld.res.current
                 /\ ld'.res.opened = ld.res.opened
           /\ (call.cached /\ ~call.alive /\ call.est)
              => /\ ld'.res.ok
                 /\ ld'.res.returned = ld.res.opened + 1
                 /\ ld'.res.current = ld'.res.returned
           /\ (~call.cached /\ call.est)
              => /\ ld'.res.ok
                 /\ ld'.res.returned = ld.res.opened + 1
                 /\ ld'.res.current = ld'.res.returned
           /\ ~ld'.res.ok <=> (~(call.cached /\ call.alive) /\ ~call.est)
           /\ ~ld'.res.ok => (ld'.res.current = 0 /\ ~google_sheet_instance'[1])
           /\ google_sheet_instance'[1] = (ld'.res.current # 0)]_vars

\* A failed call, then a call that opens a connection, then a call that
\* finds it stale and opens the second one, then a call that reuses it.
C15_Witness ==
    /\ Len(ld.cells) = 4
    /\ ~ld.cells[1].est
    /\ ld.cells[2].est
    /\ (~ld.cells[3].alive /\ ld.cells[3].est)
    /\ ld.cells[4].alive
    /\ ld.res.ok
    /\ ld.res.returned = 2
    /\ ld.res.opened = 2

(***************************************************************************)
(* The log write of two workflows at once.                                 *)
(***************************************************************************)

\* The first row of the log that holds no entry, of the rows 2 to 1000; the
\* row after them when they are all filled.
FirstFreeRow ==
    IF LastLogRow(sheet) < LOG_SCAN_LAST_ROW THEN LastLogRow(sheet) + 1
    ELSE LOG_SCAN_LAST_ROW + 1

\* A workflow that has scanned the log for its row and has not written yet.
Pending(p) == pc[p] = "log_update"

\* C16: nothing locks the allocation of a log row: the scan of a workflow
\* answers the first empty row of the log as it is at the scan, also while
\* another workflow holds that same row as the target of its write, so two
\* log writes can have one target row.
C16_NoRowLock ==
    [][\A p \in Procs :
           (pc[p] = "log_scan" /\ Pending(p)')
           => loc'[p].log_row_to_write = FirstFreeRow]_vars

\* Two workflows have registered a payment and both wrote row 2 of a log
\* that was empty.
C16_Witness ==
    /\ sheet.base = 0
    /\ \A p \in Procs : hist[p].outcome = "registered" /\ hist[p].wrote = 2

\* The log entry of the selection workflow p is handling.
EntryOf(p) == log_entry_data(loc[p].credit, loc[p].cuotas_a_pagar)

LetterAt(i, lower) == IF lower THEN LowerLetters[i] ELSE UpperLetters[i]

\* first: the place in the alphabet of the first of two letters (0: the
\* column has one letter); second: the place of the last letter.
ColumnLetters ==
    { [text |-> (IF i = 0 THEN <<>> ELSE <<LetterAt(i, lf)>>) \o <<LetterAt(j, ls)>>,
       letters |-> TRUE, first |-> i, second |-> j] :
          i \in 0..26, j \in 1..26, lf \in BOOLEAN, ls \in BOOLEAN }

NoColumnLetters ==
    { [text |-> t, letters |-> FALSE, first |-> 0, second |-> 0] :
          t \in { <<>>, <<"1">>, <<"A", "1">>, <<"1", "A">>, <<"$">>, <<" ", "A">>,
                  <<"a", "-">>, <<"_">>, <<"A", ".", "B">> } }

ColInputs == ColumnLetters \cup NoColumnLetters

InitCol ==
    /\ sheet = [master |-> MasterTable, base |-> 0, log |-> <<>>]
    /\ ALLOWED_USER_IDS = {1}
    /\ google_sheet_instance = [p \in Procs |-> "none"]
    /\ pc = [p \in Procs |-> "idle"]
    /\ loc = [p \in Procs |-> IdleLoc]
    /\ hist = [p \in Procs |-> FreshHist]
    /\ started = 0
    /\ \E input \in ColInputs :
           ld = [phase |-> "column", cells |-> input, res |-> [status |-> "none"]]

\* The call col_to_index(text): the function has no check of its argument
\* and no statement that raises, it returns the number the loop computed.
ColToIndex ==
    /\ ld.phase = "column"
    /\ ld' = [ld EXCEPT !.phase = "indexed",
                        !.res = [status |-> "returned",
                                 index |-> col_to_index(ld.cells.text)]]
    /\ UNCHANGED <<sheet, ALLOWED_USER_IDS, google_sheet_instance, pc, loc, hist, started>>

NextCol == ColToIndex

SpecCol == InitCol /\ [][NextCol]_vars

\* The inverse of the column numbering on 0..701: the letters of the column
\* with the zero-based index n.
IndexToCol(n) ==
    IF n < 26 THEN <<UpperLetters[n + 1]>>
    ELSE <<UpperLetters[n \div 26], UpperLetters[(n % 26) + 1]>>

\* The column in capital letters, from the places of its letters.
CapitalColumn(c) ==
    (IF c.first = 0 THEN <<>> ELSE <<UpperLetters[c.first]>>) \o <<UpperLetters[c.second]>>

ColumnExamples ==
    { [text |-> <<"A">>, index |-> 0], [text |-> <<"Z">>, index |-> 25],
      [text |-> <<"A", "A">>, index |-> 26], [text |-> <<"A", "Z">>, index |-> 51],
      [text |-> <<"Z", "Z">>, index |-> 701] }

\* C18: col_to_index is the zero-based bijective base-26 numbering of the
\* columns A to ZZ ('A' 0, 'Z' 25, 'AA' 26, 'AZ' 51, 'ZZ' 701), whatever the
\* case of the letters, and the inverse numbering gives the column back.
C18_ColumnNumbering ==
    (ld.phase = "indexed" /\ ld.cells.letters)
    => /\ ld.res.status = "returned"
       /\ ld.res.index = 26 * ld.cells.first + ld.cells.second - 1
       /\ ld.res.index \in 0..701
       /\ IndexToCol(ld.res.index) = CapitalColumn(ld.cells)
       /\ \A e \in ColumnExamples :
              CapitalColumn(ld.cells) = e.text => ld.res.index = e.index

\* 'zZ' has been numbered 701.
C18_Witness ==
    /\ ld.phase = "indexed"
    /\ ld.cells.text = <<"z", "Z">>
    /\ ld.res = [status |-> "returned", index |-> 701]

\* C19 (as claimed): on the empty text and on a text that has a character
\* that is no letter col_to_index fails with InvalidIdentifier and returns
\* no index.
C19_InvalidIdentifier ==
    (ld.phase = "indexed" /\ ~ld.cells.letters)
    => ld.res.status = "InvalidIdentifier"

(***************************************************************************)
(* The end of a run of the payment workflow.                               *)
(***************************************************************************)

\* p is running generate_and_send_receipt, or has run it.
InWorkflow(p) ==
    /\ loc[p].kind = "callback"
    /\ pc[p] # "idle"
    /\ hist[p].outcome \notin {"denied", "invalid_selection"}

BusinessOutcomes == {"registered", "fully_paid", "exceeds"}

\* The messages of the handlers at main_logic.py:414-436.
WorkflowErrorMessages == {"conn_error", "data_error", "uncertain"}

\* The ticket of p was rendered and its delivery failed.
DeliveryFailed(p) == hist[p].rendered /\ ~hist[p].delivered

\* The rows of the master table that hold no valid credit: row 6 has no item
\* code, row 7 is empty.
BadRows == {6, 7}

\* p has read the master row it selected, and the row holds no valid credit.
LoadedBadRow(p) ==
    /\ pc[p] = "done"
    /\ "load" \in Range(hist[p].calls) \ hist[p].failed
    /\ loc[p].row_index \in BadRows

\* A run of the workflow has ended with exactly one message, one of the
\* four kinds; a run that has not ended has given none.
OneOutcome(p) ==
    /\ (pc[p] = "done") = (hist[p].outcome # "none")
    /\ hist[p].outcome \in {"none"} \cup BusinessOutcomes \cup WorkflowErrorMessages

\* C20 (as claimed): every failure in a run of the payment workflow ends the
\* run with an error message, and a run ends with exactly one of: registered,
\* fully paid, exceeds, error message.
C20_EveryFailureReported ==
    \A p \in Procs :
        InWorkflow(p)
        => /\ OneOutcome(p)
           /\ (hist[p].failed # {} \/ DeliveryFailed(p) \/ LoadedBadRow(p))
              => /\ pc[p] = "done"
                 /\ hist[p].outcome \in WorkflowErrorMessages

\* C20 (amended): every failure but one of the row scan made for the receipt
\* number ends the run with an error message (that one is passed over and the
\* run goes on); a run that ends with a business outcome had no other
\* failure; every run ends, with exactly one of: registered, fully paid,
\* exceeds, error message.
C20_WorkflowOutcomes ==
    /\ [](\A p \in Procs :
            InWorkflow(p)
            => /\ OneOutcome(p)
               /\ (hist[p].failed \ {"remito_scan"} # {}
                      \/ DeliveryFailed(p) \/ LoadedBadRow(p))
                  => /\ pc[p] = "done"
                     /\ hist[p].outcome \in WorkflowErrorMessages
               /\ hist[p].outcome \in BusinessOutcomes
                  => /\ hist[p].failed \subseteq {"remito_scan"}
                     /\ hist[p].raised = "none")
    /\ \A p \in Procs : InWorkflow(p) ~> (pc[p] = "done")

\* One run ended with the data-error message, another was registered after
\* its scan for the receipt number had failed.
C20_Witness ==
    \E p, q \in Procs :
        /\ InWorkflow(p) /\ LoadedBadRow(p) /\ hist[p].outcome = "data_error"
        /\ InWorkflow(q) /\ hist[q].failed = {"remito_scan"}
        /\ hist[q].outcome = "registered"

(***************************************************************************)
(* find_first_empty_log_row on its own: logs of up to MaxLogRows rows of   *)
(* every kind below, at the start of the scanned window and at its end.    *)
(***************************************************************************)
MaxLogRows == 3

\* The cells A-I of a log row.  empty: the cells A-D hold no text at all;
\* blank: the cells A-D hold no text but whitespace.
LogRowKinds ==
    { [cells |-> <<>>, empty |-> TRUE, blank |-> TRUE],
      [cells |-> <<<<>>, <<>>, <<>>, <<>>, <<"T", "V">>>>, empty |-> TRUE, blank |-> TRUE],
      [cells |-> <<<<" ">>>>, empty |-> FALSE, blank |-> TRUE],
      [cells |-> <<<<>>, <<" ", " ">>, <<>>, <<>>, <<"7">>>>, empty |-> FALSE, blank |-> TRUE],
      [cells |-> <<<<>>, <<>>, <<>>, <<"T", "V">>>>, empty |-> FALSE, blank |-> FALSE],
      [cells |-> <<FechaLog, <<"A", "l">>, <<"B", "a">>, <<"T", "V">>, <<"7">>>>,
       empty |-> FALSE, blank |-> FALSE] }

\* The rows filled before the first row of the log under test: none, or all
\* rows of the scanned window but its last.
ScanLogBases == {0, LOG_SCAN_LAST_ROW - 2}

ScanLogs == UNION { [1..n -> LogRowKinds] : n \in 0..MaxLogRows }

InitScan ==
    /\ ALLOWED_USER_IDS = {1}
    /\ google_sheet_instance = [p \in Procs |-> "none"]
    /\ pc = [p \in Procs |-> "idle"]
    /\ loc = [p \in Procs |-> IdleLoc]
    /\ hist = [p \in Procs |-> FreshHist]
    /\ started = 0
    /\ \E base \in ScanLogBases, rows \in ScanLogs :
           /\ sheet = [master |-> MasterTable, base |-> base,
                       log |-> [i \in 1..Len(rows) |-> rows[i].cells]]
           /\ ld = [phase |-> "log", cells |-> rows, res |-> [status |-> "none"]]

\* The call find_first_empty_log_row() with the ledger answering.
ScanLog ==
    /\ ld.phase = "log"
    /\ ld' = [ld EXCEPT !.phase = "scanned",
                        !.res = [status |-> "returned",
                                 row |-> find_first_empty_log_row(sheet)]]
    /\ UNCHANGED <<sheet, ALLOWED_USER_IDS, google_sheet_instance, pc, loc, hist, started>>

NextScan == ScanLog

SpecScan == InitScan /\ [][NextScan]_vars

\* The rows of the scanned window from the first row under test on.
WindowRows == (sheet.base + 2)..LOG_SCAN_LAST_ROW

\* Row r is past the log under test, or the row of the log at r is free(_).
FreeAt(r, free(_)) ==
    \/ r - sheet.base - 1 > Len(ld.cells)
    \/ free(ld.cells[r - sheet.base - 1])

\* The lowest row of the window that is free, one past the window if none is.
LowestFree(free(_)) ==
    LET rows == {r \in WindowRows : FreeAt(r, free)}
    IN  IF rows = {} THEN LOG_SCAN_LAST_ROW + 1
        ELSE CHOOSE r \in rows : \A q \in rows : r <= q

IsEmptyRow(k) == k.empty

IsBlankRow(k) == k.blank

TokenRows == {2, 9, 10, 500}

TokenCounts == {1, 2, 12}

\* Item codes as find_client_credits returns them: trimmed and not empty.
TokenCodes ==
    { <<"B", "2">>, <<"A", "_", "1">>, <<"_">>, <<"a", "_", "_", "b">>,
      <<"1", "_", "2">>, <<"_", "x">>, <<"x", "_">>, <<"s", "e", "l", "e", "c", "t">>,
      <<"7">>, <<"C", " ", "3">> }

InitToken ==
    /\ sheet = [master |-> MasterTable, base |-> 0, log |-> <<>>]
    /\ ALLOWED_USER_IDS = {1}
    /\ google_sheet_instance = [p \in Procs |-> "none"]
    /\ pc = [p \in Procs |-> "idle"]
    /\ loc = [p \in Procs |-> IdleLoc]
    /\ hist = [p \in Procs |-> FreshHist]
    /\ started = 0
    /\ \E r \in TokenRows, n \in TokenCounts, c \in TokenCodes :
           ld = [phase |-> "match",
                 cells |-> [row_index |-> r, num_cuotas |-> n, codigo |-> c],
                 res |-> [status |-> "none"]]

\* process_payment_request puts the token on the button of the match.
BuildToken ==
    /\ ld.phase = "match"
    /\ ld' = [ld EXCEPT !.phase = "button",
                        !.res = [status |-> "built",
                                 data |-> CallbackData(ld.cells, ld.cells.num_cuotas)]]
    /\ UNCHANGED <<sheet, ALLOWED_USER_IDS, google_sheet_instance, pc, loc, hist, started>>

\* handle_item_selection_callback parses the token of the button pressed.
ParseToken ==
    /\ ld.phase = "button"
    /\ ld' = [ld EXCEPT !.phase = "parsed",
                        !.res = [status |-> "parsed", data |-> ld.res.data,
                                 parsed |-> ParseCallback(ld.res.data)]]
    /\ UNCHANGED <<sheet, ALLOWED_USER_IDS, google_sheet_instance, pc, loc, hist, started>>

NextToken == BuildToken \/ ParseToken

SpecToken == InitToken /\ [][NextToken]_vars

\* C22: the selection token round-trips: for a row number above 1, a count
\* above 0 and an item code, with underscores or without, the token built
\* is parsed to the same row number, count and item code.
C22_TokenRoundTrip ==
    ld.phase = "parsed"
    => /\ ld.res.parsed.ok
       /\ ld.res.parsed.row_index = ld.cells.row_index
       /\ ld.res.parsed.cuotas_a_pagar = ld.cells.num_cuotas
       /\ ld.res.parsed.item_code_str = ld.cells.codigo

\* The token 'select_10_12_a__b' has been parsed to row 10, 12 installments
\* and the code 'a__b'.
C22_Witness ==
    /\ ld.phase = "parsed"
    /\ ld.res.data = <<"s", "e", "l", "e", "c", "t", "_", "1", "0", "_", "1", "2", "_",
                       "a", "_", "_", "b">>
    /\ ld.res.parsed = [ok |-> TRUE, row_index |-> 10, cuotas_a_pagar |-> 12,
                        item_code_str |-> <<"a", "_", "_", "b">>]

(***************************************************************************)
(* Who reaches the ledger.                                                 *)
(***************************************************************************)

\* The users of the allowlist; user 0 stands for an update with no user.
Authorized == ALLOWED_USER_IDS \ {0}

\* The step makes a ledger call of p, renders or delivers its receipt, or
\* writes its log row.
Touches(p) ==
    \/ Len(hist'[p].calls) > Len(hist[p].calls)
    \/ hist'[p].rendered /\ ~hist[p].rendered
    \/ hist'[p].delivered /\ ~hist[p].delivered
    \/ hist'[p].wrote # 0 /\ hist[p].wrote = 0

\* C23: an interaction of a user that is not in the allowlist, or of no
\* user, ends at once: it makes no sheet read, renders and delivers no
\* receipt and writes no log row; with an empty allowlist no interaction
\* reaches the ledger.
C23_OnlyAuthorizedReachLedger ==
    /\ [][\A p \in Procs :
              /\ (pc[p] \in {"idle", "done"} /\ pc'[p] \notin {"idle", "done"})
                 => loc'[p].user \in Authorized
              /\ Touches(p) => loc[p].user \in Authorized
              /\ sheet' # sheet => \E q \in Procs : Touches(q) /\ loc[q].user \in Authorized]_vars
    /\ [](\A p \in Procs :
              /\ hist[p].outcome = "denied"
                 => hist[p].calls = <<>> /\ ~hist[p].rendered /\ hist[p].wrote = 0
              /\ ALLOWED_USER_IDS = {}
                 => /\ hist[p].calls = <<>> /\ ~hist[p].rendered /\ ~hist[p].delivered
                    /\ pc[p] \in {"idle", "done"}
                    /\ sheet.log = <<>>)

\* With user 1 allowed, one selection was denied and touched nothing while
\* another was registered.
C23_Witness ==
    /\ ALLOWED_USER_IDS = {1}
    /\ hist[1].outcome = "denied" /\ hist[1].calls = <<>> /\ pc[1] = "done"
    /\ hist[2].outcome = "registered"

(***************************************************************************)
(* A payment request on one master row: the load, the feasibility checks,  *)
(* the ticket and the log entry, for rows whose installments-paid cell     *)
(* holds any integer.                                                      *)
(***************************************************************************)
PayTotals == {[text |-> <<"1">>, val |-> 1], [text |-> <<"2">>, val |-> 2],
              [text |-> <<"1", "2">>, val |-> 12]}

PayPaidCells == { <<>>, <<"0">>, <<"1">>, <<"3">>, <<"1", "1">>, <<"1", "2">>,
                  <<"-", "1">>, <<"-", "3">> }

PayInputs == [total : PayTotals, paid : PayPaidCells, cuotas : 1..12]

PayRow(input) ==
    LoadRow([nombre |-> <<"A", "l">>, codigo |-> <<"A", "_", "1">>, id_articulo |-> <<"7">>,
             importe_cuota |-> <<"1", "0", "0">>, total_cuotas |-> input.total.text,
             cuotas_abonadas |-> input.paid])

\* generate_and_send_receipt from the load to the log write, every remote
\* call and the delivery succeeding: the outcome, and for a payment that is
\* registered the ticket delivered and the log entry written.
Payment(got, cuotas_a_pagar, verdict) ==
    IF got.status = "ValueError" THEN [status |-> "data_error"]
    ELSE IF verdict # "payable" THEN [status |-> verdict]
    ELSE [status |-> "registered",
          ticket |-> Ticket(got.credit, cuotas_a_pagar, REMITO_NA),
          entry |-> log_entry_data(got.credit, cuotas_a_pagar)]

PaymentOf(got, cuotas_a_pagar) ==
    Payment(got, cuotas_a_pagar,
            IF got.status = "ValueError" THEN "none"
            ELSE Feasibility(got.credit, cuotas_a_pagar))

InitPay ==
    /\ ld \in [phase : {"selected"}, cells : PayInputs, res : {[status |-> "none"]}]
    /\ sheet = [master |-> MasterTable, base |-> 0, log |-> <<>>]
    /\ ALLOWED_USER_IDS = {1}
    /\ google_sheet_instance = [p \in Procs |-> FALSE]
    /\ pc = [p \in Procs |-> "idle"]
    /\ loc = [p \in Procs |-> IdleLoc]
    /\ hist = [p \in Procs |-> FreshHist]
    /\ started = 0

Pay ==
    /\ ld.phase = "selected"
    /\ ld' = [ld EXCEPT !.phase = "handled",
                        !.res = PaymentOf(get_credit_data(2, PayRow(ld.cells)),
                                          ld.cells.cuotas)]
    /\ UNCHANGED <<sheet, ALLOWED_USER_IDS, google_sheet_instance, pc, loc, hist, started>>

NextPay == Pay

SpecPay == InitPay /\ [][NextPay]_vars

\* The range label of the installments start to end of total.
RangeLabel(start, end, total) ==
    IF start = end THEN IntToStr(start) \o <<" ", "o", "f", " ">> \o IntToStr(total)
    ELSE IntToStr(start) \o <<" ", "t", "o", " ">> \o IntToStr(end)
         \o <<" ", "o", "f", " ">> \o IntToStr(total)

\* C24 (as claimed): for every row the load accepts and every request the
\* workflow accepts, the receipt shows installments start to end with
\* 1 <= start <= end <= total, and the count c of the log entry is
\* 0 < c <= total.
C24_RangeWithinTotal ==
    (ld.phase = "handled" /\ ld.res.status = "registered")
    => /\ \E start \in 1..ld.cells.total.val : \E end \in start..ld.cells.total.val :
              ld.res.ticket.rango = RangeLabel(start, end, ld.cells.total.val)
       /\ \E c \in 1..ld.cells.total.val :
              ld.res.entry[9] = IntToStr(c)

====
